---- MODULE Spec2Model ----
(***************************************************************************)
(* Meeting scheduling in the inside-sales CRM:                             *)
(*   - the create-teams-meeting edge function (the "provisioner"),         *)
(*     supabase/functions/create-teams-meeting/index.ts;                   *)
(*   - the MeetingModal form, src/components/SendEmailModal.tsx (second    *)
(*     half of the file, from line 244).                                   *)
(*   - the time slots the form offers (same file, lines 277-382);          *)
(*   - the permission gate of the sidebar and of the user dashboard.       *)
(* The specifications share the variables: SpecProv runs the edge function *)
(* on one request after another, SpecForm runs the dates and times of the  *)
(* meeting form, SpecTeams its "Create Teams Meeting" button, SpecSlots    *)
(* renders the time pickers, SpecGate loads role and page permissions.     *)
(***************************************************************************)
EXTENDS Integers, Sequences, FiniteSets, TLC

VARIABLES
    \* ---- edge function ----
    azureEnv,       \* names of the Azure credentials present in Deno.env
    req,            \* the request being served
    pc,             \* position of the handler
    calls,          \* outbound calls issued for this request with their outcome, in order
    user,           \* result of auth.getUser()
    accessToken,    \* result of getAccessToken()
    meeting,        \* result of createOnlineMeeting()
    resp,           \* the Response returned
    \* ---- Meetings page and MeetingModal ----
    now,            \* wall clock of the browser, local minutes since midnight of day 0
    utcOffset,      \* minutes the browser's local time is ahead of UTC
    open,           \* showModal
    editingMeeting, \* the meeting prop: the row being edited, or null
    startDate,      \* Date | undefined
    startTime,      \* "HH:MM"
    endDate,        \* Date | undefined
    endTime,        \* "HH:MM"
    formData,       \* subject, join_url, status of the form
    toast,          \* the notification shown last
    lastWrite,      \* what the form wrote to the meetings table since it was opened
    creatingTeamsMeeting, \* busy flag of the "Create Teams Meeting" button
    teamsCalls,     \* invocations of create-teams-meeting that have not answered yet
    loading,        \* busy flag of the submit button
    saveCall,       \* the insert or update of handleSubmit that has not answered yet
    timezone,       \* value of the time-zone select
    leads,          \* rows of the lead select
    contacts,       \* rows of the contact select
    fetchingPeople, \* a fetchLeadsAndContacts has not answered yet
    \* ---- time pickers ----
    timeSlots,      \* TIME_SLOTS once the module has been evaluated
    startSlots,     \* availableStartTimeSlots of the last render
    endSlots,       \* availableEndTimeSlots of the last render
    \* ---- permission gate ----
    backend,        \* user_roles row, user_metadata and page_permissions of the backend
    sidebar,        \* position of AppSidebar's fetchRoleAndPermissions
    userRole,       \* AppSidebar: userRole
    permissions,    \* AppSidebar: permissions
    roleQuery,      \* UserDashboard: useUserRole()
    permQuery       \* UserDashboard: usePagePermissions()

teamsVars == <<creatingTeamsMeeting, teamsCalls>>

modalVars == <<loading, saveCall, timezone>>

peopleVars == <<leads, contacts, fetchingPeople>>

slotVars == <<timeSlots, startSlots, endSlots>>

gateVars == <<backend, sidebar, userRole, permissions, roleQuery, permQuery>>

\* everything that lives in the browser
formVars == <<now, utcOffset, open, editingMeeting, startDate, startTime, endDate,
              endTime, formData, toast, lastWrite, teamsVars, modalVars, peopleVars, slotVars, gateVars>>

vars == <<azureEnv, req, pc, calls, user, accessToken, meeting, resp,
          now, utcOffset, open, editingMeeting, startDate, startTime, endDate,
          endTime, formData, toast, lastWrite, creatingTeamsMeeting, teamsCalls,
          loading, saveCall, timezone, leads, contacts, fetchingPeople,
          timeSlots, startSlots, endSlots,
          backend, sidebar, userRole, permissions, roleQuery, permQuery>>

----------------------------------------------------------------------------
(* JavaScript values the handler tests for truthiness.  A string field of  *)
(* the body that is absent is undefined; "" and undefined are both falsy,  *)
(* an array (empty or not) is truthy.                                      *)

Undefined == [js |-> "undefined", v |-> ""]
Null == [js |-> "null", v |-> ""]
Str(s) == [js |-> "string", v |-> s]
Arr(a) == [js |-> "array", v |-> a]

Falsy(x) == \/ x.js = "undefined"
            \/ x.js = "null"
            \/ (x.js = "string" /\ x.v = "")

----------------------------------------------------------------------------
(* Inputs of the edge function *)

AzureCredentials == {"AZURE_TENANT_ID", "AZURE_CLIENT_ID", "AZURE_CLIENT_SECRET"}

Methods == {"OPTIONS", "POST", "GET"}

\* Authorization header of the request: absent, a stale/forged token, a live session
Authorizations == {"none", "invalid", "valid"}

SessionUser == [id |-> "u-7", email |-> "rep@corp.example"]

Attendee1 == [email |-> "lead@acme.example", name |-> "Lead One"]

Subjects == {Undefined, Str(""), Str("Demo call")}
AttendeeLists == {Undefined, Arr(<<>>), Arr(<<Attendee1>>)}
StartTimes == {Undefined, Str(""), Str("2025-06-01T09:00:00.000Z")}
EndTimes == {Undefined, Str(""), Str("2025-06-01T10:00:00.000Z")}

\* A body that req.json() cannot parse, or the parsed MeetingRequest
MalformedBody == [json |-> FALSE]
Bodies == {MalformedBody} \cup
          [json : {TRUE}, subject : Subjects, attendees : AttendeeLists,
           startTime : StartTimes, endTime : EndTimes]

Requests == [method : Methods, authorization : Authorizations, body : Bodies]

NoReq == [method |-> "-", authorization |-> "-", body |-> MalformedBody]

----------------------------------------------------------------------------
(* Responses.  An error message is a tuple of its parts (template literals *)
(* keep the interpolated value as its own part).                           *)

NoResp == [status |-> 0, kind |-> "none"]

PreflightResponse == [status |-> 200, kind |-> "preflight"]

ErrorResponse(st, msg) == [status |-> st, kind |-> "error", error |-> msg]

SuccessResponse(m) ==
    [status |-> 200, kind |-> "success", success |-> TRUE, meeting |-> m,
     message |-> <<"Teams meeting created successfully">>]

MsgAuthRequired == <<"Authentication required">>
MsgMethodNotAllowed == <<"Method not allowed">>
MsgMissingFields == <<"Missing required fields: subject, attendees, startTime, endTime">>
MsgMissingCredentials ==
    <<"Missing Azure credentials. Please configure AZURE_TENANT_ID, AZURE_CLIENT_ID, and AZURE_CLIENT_SECRET.">>
MsgTokenFallback == <<"Failed to get access token from Azure AD">>
MsgOrganizerNotFound(organizerEmail) ==
    <<"Cannot find user in Azure AD: ", organizerEmail, ". ",
      "Please ensure the Azure App has User.Read.All permission with admin consent, ",
      "or the user exists in your Azure AD tenant.">>
MsgGraphAuthentication ==
    <<"Authentication error with Microsoft Graph. ",
      "Please ensure the Azure App has OnlineMeetings.ReadWrite.All permission with admin consent.">>
MsgNoLicense(organizerEmail) ==
    <<"User ", organizerEmail, " does not have a Teams license or is not enabled for online meetings.">>
MsgCreateFallback == <<"Failed to create Teams meeting">>
MsgInternal == <<"Internal server error">>

\* catch (error) of the handler: error.message || 'Internal server error'
CatchResponse(message) ==
    ErrorResponse(500, IF message = <<>> THEN MsgInternal ELSE message)

----------------------------------------------------------------------------
(* What the collaborators can answer *)

\* auth.getUser(): for a live session the auth service answers with the user
\* or fails; for no or a bad token it never yields a user
GetUserOutcomes(authorization) ==
    IF authorization = "valid" THEN {"user", "authError"} ELSE {"authError"}

\* token endpoint: ok, or rejected with / without an error_description
TokenOutcomes == {"ok", "rejected", "rejectedNoDescription"}
MsgTokenRejected == <<"AADSTS7000215: Invalid client secret provided.">>

\* GET /users/{email}
LookupOutcomes == {"ok", "notFound"}

\* POST /users/{id}/onlineMeetings
CreateOutcomes == {"ok", "AuthenticationError", "ResourceNotFound", "otherError", "otherNoMessage"}
MsgGraphOther == <<"Invalid request body">>

\* rpc('log_security_event'): stored, answered with an error, or thrown
AuditOutcomes == {"ok", "errorResult", "throws"}

NoUser == [id |-> "", email |-> ""]
NoMeeting == [id |-> "", joinUrl |-> "", subject |-> "", startDateTime |-> "", endDateTime |-> ""]

\* the onlineMeeting resource Graph answers with, as createOnlineMeeting returns it
GraphMeeting(meetingRequest) ==
    [id |-> "MSo1N2Y5", joinUrl |-> "https://teams.microsoft.com/l/meetup-join/19:meeting",
     subject |-> meetingRequest.subject.v,
     startDateTime |-> meetingRequest.startTime.v,
     endDateTime |-> meetingRequest.endTime.v]

----------------------------------------------------------------------------
(* Strings of the meeting form are sequences of character codes, so that   *)
(* padding, splitting and comparing them is what the JavaScript does.      *)

Char0 == 48     \* "0"
CharColon == 58 \* ":"

MinutesPerHour == 60
MinutesPerDay == 24 * 60

\* n.toString() for 0 <= n <= 99
toString(n) == IF n < 10 THEN <<Char0 + n>> ELSE <<Char0 + (n \div 10), Char0 + (n % 10)>>

RECURSIVE padStart(_, _, _)
padStart(str, targetLength, ch) ==
    IF Len(str) >= targetLength THEN str ELSE padStart(<<ch>> \o str, targetLength, ch)

\* variant: hour and minute are not padded
TimeString_unpadded(hour, minute) ==
    toString(hour) \o <<CharColon>> \o toString(minute)

\* `${h}:${m}` of two padded numbers
TimeString(hour, minute) ==
    padStart(toString(hour), 2, Char0) \o <<CharColon>> \o padStart(toString(minute), 2, Char0)

RECURSIVE Number(_)
Number(digits) ==
    IF digits = <<>> THEN 0
    ELSE 10 * Number(SubSeq(digits, 1, Len(digits) - 1)) + (digits[Len(digits)] - Char0)

\* time.split(":").map(Number)
SplitTime(time) ==
    LET i == CHOOSE k \in 1..Len(time) : time[k] = CharColon
    IN  <<Number(SubSeq(time, 1, i - 1)), Number(SubSeq(time, i + 1, Len(time)))>>

SlotStep == 15
HourLimit == 24
MinuteLimit == 60

\* inner loop of generateTimeSlots: for (minute = ...; minute < 60; minute += 15)
RECURSIVE minuteLoop(_, _)
minuteLoop(hour, minute) ==
    IF minute >= MinuteLimit THEN <<>>
    ELSE <<TimeString(hour, minute)>> \o minuteLoop(hour, minute + SlotStep)

\* outer loop of generateTimeSlots: for (hour = ...; hour < 24; hour++)
RECURSIVE hourLoop(_)
hourLoop(hour) ==
    IF hour >= HourLimit THEN <<>>
    ELSE minuteLoop(hour, 0) \o hourLoop(hour + 1)

generateTimeSlots == hourLoop(0)

TIME_SLOTS == generateTimeSlots

----------------------------------------------------------------------------
(* Dates.  A Date is an instant, kept in local minutes since the local     *)
(* midnight of day 0; the form never sets seconds other than zero.         *)

NoDate == [defined |-> FALSE, t |-> 0]
DateOf(t) == [defined |-> TRUE, t |-> t]

getDay(t) == t \div MinutesPerDay
getHours(t) == (t % MinutesPerDay) \div MinutesPerHour
getMinutes(t) == t % MinutesPerHour
Midnight(t) == getDay(t) * MinutesPerDay

\* dt.setHours(h, m, 0, 0)
setHours(t, h, m) == Midnight(t) + h * MinutesPerHour + m

\* format(date, "HH:mm")
formatHHmm(t) == TimeString(getHours(t), getMinutes(t))

\* Date.prototype.toISOString(): the UTC calendar day and time of the instant
toISOString(t, offset) ==
    [date |-> getDay(t - offset), time |-> formatHHmm(t - offset)]

\* new Date(isoString)
parseISO(iso, offset) ==
    LET hm == SplitTime(iso.time)
    IN  iso.date * MinutesPerDay + hm[1] * MinutesPerHour + hm[2] + offset

EmptyISO == [date |-> 0, time |-> <<>>]

\* variant: the wall time is taken in the zone of the time-zone select
buildISODateTime_zoned(date, time, offset) ==
    IF ~date.defined THEN EmptyISO
    ELSE LET hm == SplitTime(time)
             zone == CASE timezone = "UTC" -> 0
                       [] timezone = "Asia/Tokyo" -> 540
                       [] OTHER -> offset
         IN  toISOString(setHours(date.t, hm[1], hm[2]), zone)

\* buildISODateTime(date, time)
buildISODateTime(date, time, offset) ==
    IF ~date.defined THEN EmptyISO
    ELSE LET hm == SplitTime(time)
         IN  toISOString(setHours(date.t, hm[1], hm[2]), offset)

\* const today = new Date(now.getFullYear(), now.getMonth(), now.getDate())
today(nowT) == Midnight(nowT)

\* variant: a slot at the current minute is kept
getAvailableTimeSlots_atOrAfter(selectedDate, nowT) ==
    IF ~selectedDate.defined THEN TIME_SLOTS
    ELSE IF Midnight(selectedDate.t) # today(nowT) THEN TIME_SLOTS
    ELSE SelectSeq(TIME_SLOTS,
            LAMBDA slot :
                LET hm == SplitTime(slot)
                IN  \/ hm[1] > getHours(nowT)
                    \/ (hm[1] = getHours(nowT) /\ hm[2] >= getMinutes(nowT)))

\* variant: the slots of every date are filtered by the current time
getAvailableTimeSlots_everyDay(selectedDate, nowT) ==
    IF ~selectedDate.defined THEN TIME_SLOTS
    ELSE SelectSeq(TIME_SLOTS,
            LAMBDA slot :
                LET hm == SplitTime(slot)
                IN  \/ hm[1] > getHours(nowT)
                    \/ (hm[1] = getHours(nowT) /\ hm[2] > getMinutes(nowT)))

\* getAvailableTimeSlots(selectedDate, isStart)
getAvailableTimeSlots(selectedDate, nowT) ==
    IF ~selectedDate.defined THEN TIME_SLOTS
    ELSE IF Midnight(selectedDate.t) # today(nowT) THEN TIME_SLOTS
    ELSE SelectSeq(TIME_SLOTS,
            LAMBDA slot :
                LET hm == SplitTime(slot)
                IN  \/ hm[1] > getHours(nowT)
                    \/ (hm[1] = getHours(nowT) /\ hm[2] > getMinutes(nowT)))

\* a < b for two strings, compared code unit by code unit
RECURSIVE StringLess(_, _)
StringLess(a, b) ==
    IF b = <<>> THEN FALSE
    ELSE IF a = <<>> THEN TRUE
    ELSE IF a[1] # b[1] THEN a[1] < b[1]
    ELSE StringLess(Tail(a), Tail(b))

\* variant: slots.filter(slot => slot >= startTime)
availableEndTimeSlots_notStrict(sDate, sTime, eDate, nowT) ==
    LET slots == getAvailableTimeSlots(eDate, nowT)
    IN  IF sDate.defined /\ eDate.defined /\ getDay(sDate.t) = getDay(eDate.t)
        THEN SelectSeq(slots, LAMBDA slot : ~StringLess(slot, sTime))
        ELSE slots

\* availableEndTimeSlots
availableEndTimeSlots(sDate, sTime, eDate, nowT) ==
    LET slots == getAvailableTimeSlots(eDate, nowT)
    IN  IF sDate.defined /\ eDate.defined /\ getDay(sDate.t) = getDay(eDate.t)
        THEN SelectSeq(slots, LAMBDA slot : StringLess(sTime, slot))
        ELSE slots

availableStartTimeSlots(sDate, nowT) == getAvailableTimeSlots(sDate, nowT)

\* variant: an end equal to the start is left alone
AutoAdjust_equalKept(sDate, sTime, eDate, eTime) ==
    IF sDate.defined /\ sTime # <<>> /\ eDate.defined /\ eTime # <<>>
    THEN LET shm == SplitTime(sTime)
             ehm == SplitTime(eTime)
             startDateTime == setHours(sDate.t, shm[1], shm[2])
             endDateTime == setHours(eDate.t, ehm[1], ehm[2])
             newEnd == startDateTime + MinutesPerHour
         IN  IF endDateTime < startDateTime
             THEN [endDate |-> DateOf(newEnd), endTime |-> formatHHmm(newEnd)]
             ELSE [endDate |-> eDate, endTime |-> eTime]
    ELSE [endDate |-> eDate, endTime |-> eTime]

\* the effect on [startDate, startTime]: the end the form holds after it ran
AutoAdjust(sDate, sTime, eDate, eTime) ==
    IF sDate.defined /\ sTime # <<>> /\ eDate.defined /\ eTime # <<>>
    THEN LET shm == SplitTime(sTime)
             ehm == SplitTime(eTime)
             startDateTime == setHours(sDate.t, shm[1], shm[2])
             endDateTime == setHours(eDate.t, ehm[1], ehm[2])
             newEnd == startDateTime + MinutesPerHour
         IN  IF endDateTime <= startDateTime
             THEN [endDate |-> DateOf(newEnd), endTime |-> formatHHmm(newEnd)]
             ELSE [endDate |-> eDate, endTime |-> eTime]
    ELSE [endDate |-> eDate, endTime |-> eTime]

NoRow == [id |-> "", subject |-> "", start_time |-> EmptyISO, end_time |-> EmptyISO,
          join_url |-> Null, lead_id |-> Null, contact_id |-> Null, status |-> ""]

NoToast == [title |-> "", description |-> ""]

NoWrite == [op |-> "none", row |-> NoRow]

EmptyForm == [subject |-> "", join_url |-> "", lead_id |-> "", contact_id |-> "",
              status |-> "scheduled"]

\* state of a freshly mounted Meetings page: useState initial values
FormMounted ==
    /\ open = FALSE
    /\ editingMeeting = NoRow
    /\ startDate = NoDate
    /\ startTime = TimeString(9, 0)
    /\ endDate = NoDate
    /\ endTime = TimeString(10, 0)
    /\ formData = EmptyForm
    /\ toast = NoToast
    /\ lastWrite = NoWrite
    /\ creatingTeamsMeeting = FALSE
    /\ teamsCalls = <<>>
    /\ loading = FALSE
    /\ saveCall = NoWrite
    /\ timezone = "Europe/Berlin"
    /\ leads = <<>>
    /\ contacts = <<>>
    /\ fetchingPeople = FALSE

\* value of a memoised slot list before the first render (no list of slots
\* holds an empty string)
NotRendered == << <<>> >>

\* the time pickers have not been rendered
SlotsUnrendered ==
    /\ timeSlots = <<>>
    /\ startSlots = NotRendered
    /\ endSlots = NotRendered

\* what a query of the dashboard holds before it has answered
QueryPending == [status |-> "pending", data |-> Undefined]

EmptyBackend == [role |-> Null, metaRole |-> Undefined, page_permissions |-> <<>>]

\* AppSidebar and UserDashboard as mounted: useState initial values, queries pending
GateMounted(b) ==
    /\ backend = b
    /\ sidebar = "role"
    /\ userRole = "user"
    /\ permissions = <<>>
    /\ roleQuery = QueryPending
    /\ permQuery = QueryPending

----------------------------------------------------------------------------
(* The handler passed to serve(), one action per await / return *)

ProvInit ==
    /\ azureEnv \in SUBSET AzureCredentials
    /\ req = NoReq
    /\ pc = "idle"
    /\ calls = <<>>
    /\ user = NoUser
    /\ accessToken = ""
    /\ meeting = NoMeeting
    /\ resp = NoResp
    /\ now = 0
    /\ utcOffset = 0
    /\ FormMounted
    /\ SlotsUnrendered
    /\ GateMounted(EmptyBackend)

\* a request arrives and the handler is invoked on it
Receive ==
    /\ pc = "idle"
    /\ \E r \in Requests : req' = r
    /\ pc' = "start"
    /\ UNCHANGED <<azureEnv, calls, user, accessToken, meeting, resp, formVars>>

\* the Response has been sent: the locals of the invocation are gone
Complete ==
    /\ pc = "done"
    /\ pc' = "idle"
    /\ req' = NoReq
    /\ calls' = <<>>
    /\ user' = NoUser
    /\ accessToken' = ""
    /\ meeting' = NoMeeting
    /\ resp' = NoResp
    /\ UNCHANGED <<azureEnv, formVars>>

Call(op, outcome) == [op |-> op, outcome |-> outcome]

Return(r) ==
    /\ resp' = r
    /\ pc' = "done"

\* if (req.method === 'OPTIONS') return new Response(null, ...)
Preflight ==
    /\ pc = "start"
    /\ req.method = "OPTIONS"
    /\ Return(PreflightResponse)
    /\ UNCHANGED <<azureEnv, req, calls, user, accessToken, meeting, formVars>>

\* variant: the result of getUser() is not looked at
VerifyIdentity_unchecked ==
    /\ pc = "start"
    /\ req.method # "OPTIONS"
    /\ \E o \in GetUserOutcomes(req.authorization) :
          /\ calls' = Append(calls, Call("getUser", o))
          /\ user' = SessionUser
          /\ pc' = "method"
          /\ UNCHANGED resp
    /\ UNCHANGED <<azureEnv, req, accessToken, meeting, formVars>>

\* supabaseClient.auth.getUser(); if (authError || !user) return 401
VerifyIdentity ==
    /\ pc = "start"
    /\ req.method # "OPTIONS"
    /\ \E o \in GetUserOutcomes(req.authorization) :
          /\ calls' = Append(calls, Call("getUser", o))
          /\ IF o = "user"
             THEN /\ user' = SessionUser
                  /\ pc' = "method"
                  /\ UNCHANGED resp
             ELSE /\ Return(ErrorResponse(401, MsgAuthRequired))
                  /\ UNCHANGED user
    /\ UNCHANGED <<azureEnv, req, accessToken, meeting, formVars>>

\* variant: a wrong verb is answered like a bad body
CheckMethod_as400 ==
    /\ pc = "method"
    /\ IF req.method # "POST"
       THEN Return(ErrorResponse(400, MsgMethodNotAllowed))
       ELSE pc' = "body" /\ UNCHANGED resp
    /\ UNCHANGED <<azureEnv, req, calls, user, accessToken, meeting, formVars>>

\* if (req.method !== 'POST') return 405
CheckMethod ==
    /\ pc = "method"
    /\ IF req.method # "POST"
       THEN Return(ErrorResponse(405, MsgMethodNotAllowed))
       ELSE pc' = "body" /\ UNCHANGED resp
    /\ UNCHANGED <<azureEnv, req, calls, user, accessToken, meeting, formVars>>

MsgJsonSyntax == <<"Unexpected token in JSON">>

\* variant: the subject is not checked
MissingFields_noSubject(b) ==
    Falsy(b.attendees) \/ Falsy(b.startTime) \/ Falsy(b.endTime)

\* variant: an empty attendee list counts as missing
MissingFields_emptyList(b) ==
    \/ Falsy(b.subject) \/ Falsy(b.attendees) \/ Falsy(b.startTime) \/ Falsy(b.endTime)
    \/ (b.attendees.js = "array" /\ Len(b.attendees.v) = 0)

\* variant: the attendees field is not checked
MissingFields_noAttendees(b) ==
    Falsy(b.subject) \/ Falsy(b.startTime) \/ Falsy(b.endTime)

MissingFields(b) ==
    Falsy(b.subject) \/ Falsy(b.attendees) \/ Falsy(b.startTime) \/ Falsy(b.endTime)

\* await req.json(), then if (!subject || !attendees || !startTime || !endTime) return 400
ParseAndValidate ==
    /\ pc = "body"
    /\ IF ~req.body.json
       THEN Return(CatchResponse(MsgJsonSyntax))
       ELSE IF MissingFields(req.body)
            THEN Return(ErrorResponse(400, MsgMissingFields))
            ELSE pc' = "token" /\ UNCHANGED resp
    /\ UNCHANGED <<azureEnv, req, calls, user, accessToken, meeting, formVars>>

\* variant: the exchange is attempted without the credentials check
getAccessToken_noCheck ==
    /\ pc = "token"
    /\ \E o \in TokenOutcomes :
          /\ calls' = Append(calls, Call("token", o))
          /\ CASE o = "ok" ->
                    /\ accessToken' = "eyJ0eXAi"
                    /\ pc' = "lookup"
                    /\ UNCHANGED resp
               [] o = "rejected" ->
                    /\ Return(CatchResponse(MsgTokenRejected))
                    /\ UNCHANGED accessToken
               [] o = "rejectedNoDescription" ->
                    /\ Return(CatchResponse(MsgTokenFallback))
                    /\ UNCHANGED accessToken
    /\ UNCHANGED <<azureEnv, req, user, meeting, formVars>>

\* variant: the answer of the token endpoint is not looked at
getAccessToken_ignoresFailure ==
    /\ pc = "token"
    /\ IF ~(AzureCredentials \subseteq azureEnv)
       THEN /\ Return(CatchResponse(MsgMissingCredentials))
            /\ UNCHANGED <<calls, accessToken>>
       ELSE \E o \in TokenOutcomes :
              /\ calls' = Append(calls, Call("token", o))
              /\ accessToken' = "eyJ0eXAi"
              /\ pc' = "lookup"
              /\ UNCHANGED resp
    /\ UNCHANGED <<azureEnv, req, user, meeting, formVars>>

\* getAccessToken(): credentials check, then the client-credential exchange
getAccessToken ==
    /\ pc = "token"
    /\ IF ~(AzureCredentials \subseteq azureEnv)
       THEN /\ Return(CatchResponse(MsgMissingCredentials))
            /\ UNCHANGED <<calls, accessToken>>
       ELSE \E o \in TokenOutcomes :
              /\ calls' = Append(calls, Call("token", o))
              /\ CASE o = "ok" ->
                        /\ accessToken' = "eyJ0eXAi"
                        /\ pc' = "lookup"
                        /\ UNCHANGED resp
                   [] o = "rejected" ->
                        /\ Return(CatchResponse(MsgTokenRejected))
                        /\ UNCHANGED accessToken
                   [] o = "rejectedNoDescription" ->
                        /\ Return(CatchResponse(MsgTokenFallback))
                        /\ UNCHANGED accessToken
    /\ UNCHANGED <<azureEnv, req, user, meeting, formVars>>

\* variant: a failed lookup does not stop the function
LookupOrganizer_proceeds ==
    /\ pc = "lookup"
    /\ \E o \in LookupOutcomes :
          /\ calls' = Append(calls, Call("lookup", o))
          /\ pc' = "create"
          /\ UNCHANGED resp
    /\ UNCHANGED <<azureEnv, req, user, accessToken, meeting, formVars>>

\* createOnlineMeeting(), first half: the organizer lookup by email
LookupOrganizer ==
    /\ pc = "lookup"
    /\ \E o \in LookupOutcomes :
          /\ calls' = Append(calls, Call("lookup", o))
          /\ IF o = "ok"
             THEN pc' = "create" /\ UNCHANGED resp
             ELSE Return(CatchResponse(MsgOrganizerNotFound(user.email)))
    /\ UNCHANGED <<azureEnv, req, user, accessToken, meeting, formVars>>

\* createOnlineMeeting(), second half: POST /users/{id}/onlineMeetings
CreateMeeting ==
    /\ pc = "create"
    /\ \E o \in CreateOutcomes :
       /\ calls' = Append(calls, Call("create", o))
       /\ CASE o = "ok" ->
                /\ meeting' = GraphMeeting(req.body)
                /\ pc' = "audit"
                /\ UNCHANGED resp
           [] o = "AuthenticationError" ->
                Return(CatchResponse(MsgGraphAuthentication)) /\ UNCHANGED meeting
           [] o = "ResourceNotFound" ->
                Return(CatchResponse(MsgNoLicense(user.email))) /\ UNCHANGED meeting
           [] o = "otherError" ->
                Return(CatchResponse(MsgGraphOther)) /\ UNCHANGED meeting
           [] o = "otherNoMessage" ->
                Return(CatchResponse(MsgCreateFallback)) /\ UNCHANGED meeting
    /\ UNCHANGED <<azureEnv, req, user, accessToken, formVars>>

\* variant: the audit rpc is left out
LogAndRespond_noAudit ==
    /\ pc = "audit"
    /\ Return(SuccessResponse(meeting))
    /\ UNCHANGED <<azureEnv, req, calls, user, accessToken, meeting, formVars>>

\* variant: the audit rpc is outside the inner try, a throw reaches the outer catch
LogAndRespond_surfaces ==
    /\ pc = "audit"
    /\ \E o \in AuditOutcomes :
          /\ calls' = Append(calls, Call("audit", o))
          /\ IF o = "throws"
             THEN Return(CatchResponse(<<"Failed to log security event">>))
             ELSE Return(SuccessResponse(meeting))
    /\ UNCHANGED <<azureEnv, req, user, accessToken, meeting, formVars>>

\* try { await adminClient.rpc('log_security_event', ...) } catch { warn }; return 200
LogAndRespond ==
    /\ pc = "audit"
    /\ \E o \in AuditOutcomes : calls' = Append(calls, Call("audit", o))
    /\ Return(SuccessResponse(meeting))
    /\ UNCHANGED <<azureEnv, req, user, accessToken, meeting, formVars>>

ProvNext ==
    \/ Receive
    \/ Complete
    \/ Preflight
    \/ VerifyIdentity
    \/ CheckMethod
    \/ ParseAndValidate
    \/ getAccessToken
    \/ LookupOrganizer
    \/ CreateMeeting
    \/ LogAndRespond

SpecProv == ProvInit /\ [][ProvNext]_vars

----------------------------------------------------------------------------
(* Properties of the edge function, checked under SpecProv *)

ProviderOps == {"token", "lookup", "create"}

Issued(op) == \E i \in DOMAIN calls : calls[i].op = op

Outcome(op, o) == \E i \in DOMAIN calls : calls[i] = Call(op, o)

CountCalls(op) == Cardinality({i \in DOMAIN calls : calls[i].op = op})

\* neither a provider call nor the audit write has been issued for the request
NoProviderOrAudit == \A i \in DOMAIN calls : calls[i].op \notin ProviderOps \cup {"audit"}

\* the identity check of the request has yielded the user
Authenticated == Outcome("getUser", "user")

\* an authenticated POST whose body parsed
ParsedPost == Authenticated /\ req.method = "POST" /\ req.body.json

\* C1: when the organizer lookup fails, the request ends with status 500 and
\* the organizer-not-found message, which carries the organizer's email and
\* names both causes (User.Read.All permission, user absent from the tenant),
\* and neither the create-meeting call nor the audit write is issued.
C1_OrganizerNotFound ==
    Outcome("lookup", "notFound") =>
        /\ pc = "done"
        /\ ~Issued("create")
        /\ ~Issued("audit")
        /\ resp.status = 500
        /\ resp.kind = "error"
        /\ resp.error =
             <<"Cannot find user in Azure AD: ", SessionUser.email, ". ",
               "Please ensure the Azure App has User.Read.All permission with admin consent, ",
               "or the user exists in your Azure AD tenant.">>

C1_Witness == pc = "done" /\ Outcome("lookup", "notFound") /\ resp.status = 500

\* C2: an authenticated valid request with all three credentials whose token
\* exchange, lookup and creation succeed is answered 200 with the meeting's
\* id and join URL, and exactly one audit write was issued for it.
C2_SuccessOneAudit ==
    ( /\ pc = "done"
      /\ ParsedPost
      /\ ~Falsy(req.body.subject) /\ ~Falsy(req.body.attendees)
      /\ ~Falsy(req.body.startTime) /\ ~Falsy(req.body.endTime)
      /\ AzureCredentials \subseteq azureEnv
      /\ Outcome("token", "ok") /\ Outcome("lookup", "ok") /\ Outcome("create", "ok") )
    =>  /\ resp.status = 200
        /\ resp.kind = "success"
        /\ resp.meeting.id = "MSo1N2Y5"
        /\ resp.meeting.joinUrl = "https://teams.microsoft.com/l/meetup-join/19:meeting"
        /\ resp.meeting.subject = req.body.subject.v
        /\ CountCalls("audit") = 1

C2_Witness == pc = "done" /\ resp.status = 200 /\ resp.kind = "success" /\ CountCalls("audit") = 1

\* C3: a request (other than the CORS preflight) without a valid session token
\* is answered 401 "Authentication required" with no provider call and no audit
\* write; on every request the first call is the identity check, and a provider
\* call or audit write is only ever issued after it yielded the user.
C3_Unauthenticated ==
    /\ (req.method \in {"POST", "GET"} /\ req.authorization \in {"none", "invalid"}) =>
          /\ NoProviderOrAudit
          /\ pc \in {"start", "done"}
          /\ (pc = "done" => resp = [status |-> 401, kind |-> "error",
                                       error |-> <<"Authentication required">>])
    /\ (~NoProviderOrAudit => calls[1] = Call("getUser", "user"))

C3_Witness ==
    /\ pc = "done" /\ req.method = "POST" /\ req.authorization = "invalid"
    /\ resp.status = 401 /\ calls = <<Call("getUser", "authError")>>

\* C4: an authenticated POST whose subject is empty, or whose start or end is
\* missing, is answered 400 (missing required fields); no token exchange,
\* lookup, creation or audit write is issued for it.
C4_InvalidRequest ==
    ( /\ ParsedPost
      /\ (Falsy(req.body.subject) \/ Falsy(req.body.startTime) \/ Falsy(req.body.endTime)) )
    =>  /\ NoProviderOrAudit
        /\ pc \in {"method", "body", "done"}
        /\ (pc = "done" =>
              resp = [status |-> 400, kind |-> "error",
                      error |-> <<"Missing required fields: subject, attendees, startTime, endTime">>])

C4_Witness ==
    /\ pc = "done" /\ ParsedPost /\ req.body.subject = Str("")
    /\ ~Falsy(req.body.attendees) /\ ~Falsy(req.body.startTime) /\ ~Falsy(req.body.endTime)
    /\ resp.status = 400 /\ NoProviderOrAudit

\* C5: an authenticated POST with subject, start and end and an empty attendee
\* list is never answered 400, and is answered 200 with the meeting whenever
\* the credentials are present and no provider call failed.
C5_EmptyAttendeesSucceeds ==
    ( /\ pc = "done"
      /\ ParsedPost
      /\ req.body.attendees = Arr(<<>>)
      /\ ~Falsy(req.body.subject) /\ ~Falsy(req.body.startTime) /\ ~Falsy(req.body.endTime) )
    =>  /\ resp.status # 400
        /\ ( ( /\ AzureCredentials \subseteq azureEnv
               /\ \A i \in DOMAIN calls : calls[i].op \in ProviderOps => calls[i].outcome = "ok" )
             => (resp.status = 200 /\ resp.kind = "success" /\ Outcome("create", "ok")) )

C5_Witness ==
    /\ pc = "done" /\ req.body.json /\ req.body.attendees = Arr(<<>>)
    /\ resp.status = 200 /\ resp.kind = "success"

\* C6 as stated: a request whose attendee list is empty is rejected with 400
\* before any provider call.
C6_EmptyAttendeesRejected ==
    ( /\ ParsedPost
      /\ req.body.attendees = Arr(<<>>) )
    =>  /\ NoProviderOrAudit
        /\ (pc = "done" => resp.status = 400)

\* C6 (amended): the attendees field must be present but may be empty: an
\* authenticated POST without an attendees field is answered 400 with no
\* provider call or audit write, and a 400 for a request that has subject,
\* start and end is never the answer to an attendee list that is present.
C6_AttendeesFieldRequired ==
    /\ (ParsedPost /\ req.body.attendees = Undefined) =>
          /\ NoProviderOrAudit
          /\ pc \in {"method", "body", "done"}
          /\ (pc = "done" => resp.status = 400 /\ resp.kind = "error")
    /\ ( /\ pc = "done" /\ ParsedPost /\ resp.status = 400
         /\ ~Falsy(req.body.subject) /\ ~Falsy(req.body.startTime) /\ ~Falsy(req.body.endTime) )
       => req.body.attendees.js # "array"

C6_Witness ==
    /\ pc = "done" /\ ParsedPost /\ req.body.attendees = Undefined
    /\ ~Falsy(req.body.subject) /\ ~Falsy(req.body.startTime) /\ ~Falsy(req.body.endTime)
    /\ resp.status = 400

CredentialsMissing == ~(AzureCredentials \subseteq azureEnv)

\* C7: when a credential is absent no token exchange, lookup, creation or audit
\* write is ever issued, a request that reaches getAccessToken is answered 500
\* with the missing-credentials message, and the step that finds the
\* credential missing ends the request (it is not attempted again).
C7_ConfigurationError ==
    /\ [](CredentialsMissing =>
            /\ NoProviderOrAudit
            /\ pc \notin {"lookup", "create", "audit"}
            /\ ( ( /\ pc = "done" /\ ParsedPost
                   /\ ~Falsy(req.body.subject) /\ ~Falsy(req.body.attendees)
                   /\ ~Falsy(req.body.startTime) /\ ~Falsy(req.body.endTime) )
                 => resp = [status |-> 500, kind |-> "error",
                            error |-> <<"Missing Azure credentials. Please configure AZURE_TENANT_ID, AZURE_CLIENT_ID, and AZURE_CLIENT_SECRET.">>] ))
    /\ [][(pc = "token" /\ CredentialsMissing) => (pc' = "done" /\ calls' = calls)]_vars

C7_Witness ==
    /\ pc = "done" /\ CredentialsMissing /\ resp.status = 500
    /\ resp.error = MsgMissingCredentials
    /\ calls = <<Call("getUser", "user")>>

\* C8: once the meeting was created the answer is 200 with that meeting,
\* whatever became of the audit write: the response carries nothing of the
\* audit outcome and is the same for a stored, a refused and a thrown write.
C8_AuditFailureSwallowed ==
    (pc = "done" /\ Outcome("create", "ok")) =>
        /\ \E o \in AuditOutcomes : calls[Len(calls)] = Call("audit", o)
        /\ resp = [status |-> 200, kind |-> "success", success |-> TRUE,
                   meeting |-> GraphMeeting(req.body),
                   message |-> <<"Teams meeting created successfully">>]

C8_Witness ==
    /\ pc = "done" /\ Outcome("create", "ok") /\ Outcome("audit", "throws")
    /\ resp.status = 200 /\ resp.kind = "success"

\* the status the first failing check of the handler stands for
ExpectedStatus ==
    IF ~Authenticated THEN 401
    ELSE IF req.method # "POST" THEN 405
    ELSE IF req.body.json /\ ( \/ Falsy(req.body.subject) \/ Falsy(req.body.attendees)
                               \/ Falsy(req.body.startTime) \/ Falsy(req.body.endTime) ) THEN 400
    ELSE IF \/ ~req.body.json
            \/ CredentialsMissing
            \/ \E i \in DOMAIN calls : calls[i].op \in ProviderOps /\ calls[i].outcome # "ok"
         THEN 500
    ELSE 200

\* C9: a request that fails is answered with a non-empty error string and the
\* status of the first check that failed, in the order of the handler: 401
\* identity, 405 verb, 400 missing field, 500 anything later (body that does not
\* parse, configuration, token exchange, lookup, creation); only a request
\* that passed them all is answered 200.
C9_StatusCodes ==
    (pc = "done" /\ req.method # "OPTIONS") =>
        /\ resp.status = ExpectedStatus
        /\ resp.status \in {200, 400, 401, 405, 500}
        /\ (resp.status # 200 =>
               /\ resp.kind = "error"
               /\ resp.error # <<>>
               /\ \A i \in DOMAIN resp.error : resp.error[i] # "")
        /\ (resp.status = 200 => resp.kind = "success")

C9_Witness ==
    /\ pc = "done" /\ req.method = "GET" /\ Authenticated
    /\ resp.status = 405 /\ resp.kind = "error"

----------------------------------------------------------------------------
(* The Meetings page and its MeetingModal *)

\* days the calendars of the form offer: today (day 0) .. MaxDay
MaxDay == 1
Days == 0..MaxDay

\* wall-clock times the form is used at: 14:07
NowSet == {14 * MinutesPerHour + 7}

UtcOffsets == {0, 120}

\* rows of the meetings table that the list offers for editing
StoredMeetings(offset) ==
    {[id |-> "m-0", subject |-> "Kickoff",
      start_time |-> toISOString(MinutesPerDay + 9 * MinutesPerHour, offset),
      end_time |-> toISOString(MinutesPerDay + 10 * MinutesPerHour, offset),
      join_url |-> Null, lead_id |-> Null, contact_id |-> Null, status |-> "scheduled"]}

\* the slots a user clicks, when the picker offers them
PickTimes == {TimeString(8, 0), TimeString(15, 0), TimeString(23, 30)}

SubjectInputs == {"", "Demo call"}

Offered(slots) == {slots[i] : i \in 1..Len(slots)}

ProvIdle ==
    /\ azureEnv = AzureCredentials
    /\ req = NoReq
    /\ pc = "idle"
    /\ calls = <<>>
    /\ user = NoUser
    /\ accessToken = ""
    /\ meeting = NoMeeting
    /\ resp = NoResp

FormInit ==
    /\ ProvIdle
    /\ now \in NowSet
    /\ utcOffset \in UtcOffsets
    /\ FormMounted
    /\ SlotsUnrendered
    /\ GateMounted(EmptyBackend)

\* formData.join_url || null
OrNull(str) == IF str = "" THEN Null ELSE Str(str)

\* meeting.join_url || ""
OrEmpty(x) == IF Falsy(x) THEN "" ELSE x.v

\* variant: the minutes are rounded down to the quarter
DefaultStart_floor(nowT) ==
    (nowT - getMinutes(nowT)) + (getMinutes(nowT) \div 15) * 15 + 15

\* Math.ceil(minutes / 15) * 15 + 15 set as the minutes of new Date()
DefaultStart(nowT) ==
    (nowT - getMinutes(nowT)) + ((getMinutes(nowT) + 14) \div 15) * 15 + 15

\* the setters of one render, followed by the effect on [startDate, startTime]
SetTimes(sDate, sTime, eDate, eTime) ==
    LET adj == AutoAdjust(sDate, sTime, eDate, eTime)
    IN  /\ startDate' = sDate
        /\ startTime' = sTime
        /\ endDate' = adj.endDate
        /\ endTime' = adj.endTime

\* "New Meeting" button, then the effect on [open, meeting] with meeting = null,
\* which also starts fetchLeadsAndContacts
ClickNewMeeting ==
    /\ ~open
    /\ open' = TRUE
    /\ editingMeeting' = NoRow
    /\ LET defaultStart == DefaultStart(now)
           defaultEnd == defaultStart + MinutesPerHour
       IN  SetTimes(DateOf(defaultStart), formatHHmm(defaultStart),
                    DateOf(defaultEnd), formatHHmm(defaultEnd))
    /\ formData' = EmptyForm
    /\ lastWrite' = NoWrite
    /\ fetchingPeople' = TRUE
    /\ UNCHANGED <<now, utcOffset, toast, azureEnv, req, pc, calls, user, accessToken, meeting, resp,
                   teamsVars, modalVars, leads, contacts, slotVars, gateVars>>

\* edit button of a row, then the effect on [open, meeting] with that row
ClickEdit(m) ==
    /\ ~open
    /\ open' = TRUE
    /\ editingMeeting' = m
    /\ lastWrite' = NoWrite
    /\ LET start == parseISO(m.start_time, utcOffset)
           end == parseISO(m.end_time, utcOffset)
       IN  /\ SetTimes(DateOf(start), formatHHmm(start), DateOf(end), formatHHmm(end))
           /\ formData' = [subject |-> m.subject,
                           join_url |-> OrEmpty(m.join_url),
                           lead_id |-> OrEmpty(m.lead_id),
                           contact_id |-> OrEmpty(m.contact_id),
                           status |-> IF m.status = "" THEN "scheduled" ELSE m.status]
    /\ fetchingPeople' = TRUE
    /\ UNCHANGED <<now, utcOffset, toast, azureEnv, req, pc, calls, user, accessToken, meeting, resp,
                   teamsVars, modalVars, leads, contacts, slotVars, gateVars>>

\* Cancel button: onOpenChange(false)
Cancel ==
    /\ open
    /\ open' = FALSE
    /\ UNCHANGED <<now, utcOffset, editingMeeting, startDate, startTime, endDate, endTime,
                   formData, toast, lastWrite, azureEnv, req, pc, calls, user, accessToken, meeting, resp,
                   teamsVars, modalVars, peopleVars, slotVars, gateVars>>

\* what a click on day d of a single-selection calendar hands to onSelect
Clicked(selected, d) ==
    IF selected.defined /\ getDay(selected.t) = d THEN NoDate ELSE DateOf(d * MinutesPerDay)

\* start calendar: onSelect={setStartDate}, disabled={(date) => date < today}
SelectStartDate(d) ==
    /\ open
    /\ ~(d * MinutesPerDay < today(now))
    /\ SetTimes(Clicked(startDate, d), startTime, endDate, endTime)
    /\ UNCHANGED <<now, utcOffset, open, editingMeeting, formData, toast, lastWrite, azureEnv, req, pc, calls, user, accessToken, meeting, resp,
                   teamsVars, modalVars, peopleVars, slotVars, gateVars>>

\* start time list: onClick={() => setStartTime(slot)}
SelectStartTime(slot) ==
    /\ open
    /\ slot \in Offered(availableStartTimeSlots(startDate, now))
    /\ slot # startTime
    /\ SetTimes(startDate, slot, endDate, endTime)
    /\ UNCHANGED <<now, utcOffset, open, editingMeeting, formData, toast, lastWrite, azureEnv, req, pc, calls, user, accessToken, meeting, resp,
                   teamsVars, modalVars, peopleVars, slotVars, gateVars>>

\* variant: the auto-adjustment also runs after a click on the end calendar
SelectEndDate_adjusts(d) ==
    /\ open
    /\ ~(d * MinutesPerDay < (IF startDate.defined THEN startDate.t ELSE today(now)))
    /\ SetTimes(startDate, startTime, Clicked(endDate, d), endTime)
    /\ UNCHANGED <<now, utcOffset, open, editingMeeting,
                   formData, toast, lastWrite, azureEnv, req, pc, calls, user, accessToken, meeting, resp,
                   teamsVars, modalVars, peopleVars, slotVars, gateVars>>

\* end calendar: onSelect={setEndDate}, disabled={(date) => date < (startDate || today)}
SelectEndDate(d) ==
    /\ open
    /\ ~(d * MinutesPerDay < (IF startDate.defined THEN startDate.t ELSE today(now)))
    /\ endDate' = Clicked(endDate, d)
    /\ UNCHANGED <<now, utcOffset, open, editingMeeting, startDate, startTime, endTime,
                   formData, toast, lastWrite, azureEnv, req, pc, calls, user, accessToken, meeting, resp,
                   teamsVars, modalVars, peopleVars, slotVars, gateVars>>

\* end time list: onClick={() => setEndTime(slot)}
SelectEndTime(slot) ==
    /\ open
    /\ slot \in Offered(availableEndTimeSlots(startDate, startTime, endDate, now))
    /\ endTime' = slot
    /\ UNCHANGED <<now, utcOffset, open, editingMeeting, startDate, startTime, endDate,
                   formData, toast, lastWrite, azureEnv, req, pc, calls, user, accessToken, meeting, resp,
                   teamsVars, modalVars, peopleVars, slotVars, gateVars>>

\* subject input: onChange
TypeSubject(text) ==
    /\ open
    /\ formData' = [formData EXCEPT !.subject = text]
    /\ UNCHANGED <<now, utcOffset, open, editingMeeting, startDate, startTime, endDate,
                   endTime, toast, lastWrite, azureEnv, req, pc, calls, user, accessToken, meeting, resp,
                   teamsVars, modalVars, peopleVars, slotVars, gateVars>>

ToastMissingFields == [title |-> "Missing fields", description |-> "Please fill in all required fields"]
ToastUpdated == [title |-> "Success", description |-> "Meeting updated successfully"]
ToastCreated == [title |-> "Success", description |-> "Meeting created successfully"]
ToastSaveError == [title |-> "Error", description |-> "Failed to save meeting"]

\* the record handleSubmit hands to the meetings table
meetingData(id) ==
    [id |-> id,
     subject |-> formData.subject,
     start_time |-> buildISODateTime(startDate, startTime, utcOffset),
     end_time |-> buildISODateTime(endDate, endTime, utcOffset),
     join_url |-> OrNull(formData.join_url),
     lead_id |-> OrNull(formData.lead_id),
     contact_id |-> OrNull(formData.contact_id),
     status |-> formData.status]

NewRowId == "m-1"

\* handleSubmit with the answer of the meetings table, when nothing else
\* happens between the click and the answer (the busy flag is set and reset
\* within the step)
handleSubmit ==
    /\ open
    /\ ~loading
    /\ IF formData.subject = "" \/ ~startDate.defined \/ ~endDate.defined
       THEN /\ toast' = ToastMissingFields
            /\ UNCHANGED <<open, editingMeeting, lastWrite>>
       ELSE \E answer \in {"ok", "error"} :
              IF answer = "error"
              THEN /\ toast' = ToastSaveError
                   /\ UNCHANGED <<open, editingMeeting, lastWrite>>
              ELSE /\ IF editingMeeting # NoRow
                      THEN /\ lastWrite' = [op |-> "update", row |-> meetingData(editingMeeting.id)]
                           /\ toast' = ToastUpdated
                      ELSE /\ lastWrite' = [op |-> "insert", row |-> meetingData(NewRowId)]
                           /\ toast' = ToastCreated
                   /\ editingMeeting' = NoRow
                   /\ open' = FALSE
    /\ UNCHANGED <<now, utcOffset, startDate, startTime, endDate, endTime, formData, azureEnv, req, pc, calls, user, accessToken, meeting, resp,
                   teamsVars, modalVars, peopleVars, slotVars, gateVars>>

FormNext ==
    \/ ClickNewMeeting
    \/ \E m \in StoredMeetings(utcOffset) : ClickEdit(m)
    \/ Cancel
    \/ \E d \in Days : SelectStartDate(d)
    \/ \E slot \in PickTimes : SelectStartTime(slot)
    \/ \E d \in Days : SelectEndDate(d)
    \/ \E slot \in PickTimes : SelectEndTime(slot)
    \/ \E text \in SubjectInputs : TypeSubject(text)
    \/ handleSubmit

SpecForm == FormInit /\ [][FormNext]_vars

----------------------------------------------------------------------------
(* Properties of the meeting form, checked under SpecForm *)

\* the instant a stored timestamp stands for
InstantOf(iso) == parseISO(iso, utcOffset)

\* C10: every record the form inserts or updates has its end instant strictly
\* after its start instant.
C10_EndAfterStart ==
    lastWrite.op # "none" =>
        InstantOf(lastWrite.row.end_time) > InstantOf(lastWrite.row.start_time)

\* minutes since midnight of day 0 that a date and an "HH:MM" time of the form stand for
FormInstant(date, time) ==
    Midnight(date.t) + (time[1] - 48) * 600 + (time[2] - 48) * 60
                     + (time[4] - 48) * 10 + (time[5] - 48)

\* the user changed the start date or the start time of the open form, and
\* the form holds a start date after it and held an end date before it
StartSideChange ==
    /\ open /\ open'
    /\ (startDate' # startDate \/ startTime' # startTime)
    /\ startDate'.defined
    /\ endDate.defined

\* C11: when the start date or start time of the form changes and the end the
\* form holds is not after the new start, the end becomes exactly the new start
\* plus one hour (its date the next day when that passes midnight); otherwise
\* the end is left as it was; either way the end is strictly after the start
\* once the change is done.
C11_AutoAdjust ==
    [][StartSideChange =>
         LET newStart == FormInstant(startDate', startTime')
             oldEnd == FormInstant(endDate, endTime)
         IN  /\ IF oldEnd <= newStart
                THEN /\ endDate'.defined
                     /\ FormInstant(endDate', endTime') = newStart + 60
                     /\ endDate'.t \div 1440 = (newStart + 60) \div 1440
                ELSE endDate' = endDate /\ endTime' = endTime
             /\ FormInstant(endDate', endTime') > FormInstant(startDate', startTime')]_vars

\* the example of the specification: start 09:00 moved to 15:00 with end 10:00
\* on the same date has given end 16:00 on that date
C11_Witness ==
    /\ open /\ editingMeeting # NoRow
    /\ startDate.defined /\ endDate.defined
    /\ startDate.t \div 1440 = endDate.t \div 1440
    /\ startTime = <<49, 53, 58, 48, 48>>
    /\ endTime = <<49, 54, 58, 48, 48>>

\* the user clicked a day of the end calendar, or a slot of the end time list
EndDateEdit == endDate' # endDate /\ \E d \in Days : SelectEndDate(d)
EndTimeEdit == endTime' # endTime /\ \E slot \in PickTimes : SelectEndTime(slot)

\* C22: a direct edit of the end date or of the end time never triggers the
\* auto-adjustment: it leaves start date and start time as they were and
\* changes the edited end field only (the end date becomes the clicked day,
\* or undefined when the selected day is clicked again; the end time becomes
\* the clicked slot), also when the end is then at or before the start.
C22_EndEditNotAdjusted ==
    /\ [][EndDateEdit =>
            /\ UNCHANGED <<startDate, startTime, endTime>>
            /\ \E d \in Days : endDate' = Clicked(endDate, d)]_vars
    /\ [][EndTimeEdit =>
            /\ UNCHANGED <<startDate, startTime, endDate>>
            /\ endTime' \in PickTimes]_vars

\* the end calendar was clicked back to the day of the start while the end
\* time was earlier than the start time: the end is before the start
C22_Witness ==
    /\ open
    /\ startDate.defined /\ endDate.defined
    /\ getDay(startDate.t) = getDay(endDate.t)
    /\ FormInstant(endDate, endTime) <= FormInstant(startDate, startTime)

----------------------------------------------------------------------------
(* The time pickers: TIME_SLOTS, availableStartTimeSlots and               *)
(* availableEndTimeSlots, as one render of the open form computes them     *)

\* wall-clock times of a render
NowHours == {0, 9, 14, 23}
NowMinutes == {0, 7, 15, 44, 45, 59}
SlotNows == {h * MinutesPerHour + mi : h \in NowHours, mi \in NowMinutes}

\* a candidate date: none, or a day from yesterday to MaxDay, as a calendar
\* click (midnight) or as a Date that carries a time of day
SlotDates ==
    {NoDate} \cup {DateOf(d * MinutesPerDay + tod) :
                      d \in (0 - 1)..MaxDay, tod \in {0, 14 * MinutesPerHour + 30}}

\* start times the form can hold: slots, and the time of a stored meeting
SlotStartTimes == {TimeString(9, 0), TimeString(14, 0), TimeString(14, 7), TimeString(23, 45)}

SlotsInit ==
    /\ ProvIdle
    /\ now \in SlotNows
    /\ utcOffset = 0
    /\ open = TRUE
    /\ editingMeeting = NoRow
    /\ startDate \in SlotDates
    /\ startTime \in SlotStartTimes
    /\ endDate \in SlotDates
    /\ endTime = TimeString(10, 0)
    /\ formData = EmptyForm
    /\ toast = NoToast
    /\ lastWrite = NoWrite
    /\ creatingTeamsMeeting = FALSE
    /\ teamsCalls = <<>>
    /\ loading = FALSE
    /\ saveCall = NoWrite
    /\ timezone = "Europe/Berlin"
    /\ leads = <<>>
    /\ contacts = <<>>
    /\ fetchingPeople = TRUE
    /\ SlotsUnrendered
    /\ GateMounted(EmptyBackend)

\* const TIME_SLOTS = generateTimeSlots(), when the module is evaluated
EvaluateModule ==
    /\ timeSlots' = generateTimeSlots
    /\ UNCHANGED <<startSlots, endSlots>>
    /\ UNCHANGED <<now, utcOffset, open, editingMeeting, startDate, startTime, endDate, endTime,
                   formData, toast, lastWrite, teamsVars, modalVars, peopleVars, gateVars,
                   azureEnv, req, pc, calls, user, accessToken, meeting, resp>>

\* a render of MeetingModal: the two useMemo values
RenderPickers ==
    /\ timeSlots # <<>>
    /\ startSlots' = availableStartTimeSlots(startDate, now)
    /\ endSlots' = availableEndTimeSlots(startDate, startTime, endDate, now)
    /\ UNCHANGED timeSlots
    /\ UNCHANGED <<now, utcOffset, open, editingMeeting, startDate, startTime, endDate, endTime,
                   formData, toast, lastWrite, teamsVars, modalVars, peopleVars, gateVars,
                   azureEnv, req, pc, calls, user, accessToken, meeting, resp>>

SlotsNext ==
    \/ EvaluateModule
    \/ RenderPickers

SpecSlots == SlotsInit /\ [][SlotsNext]_vars

----------------------------------------------------------------------------
(* Properties of the time pickers, checked under SpecSlots *)

\* the k-th quarter of an hour of the day as "HH:MM", k = 1 for 00:00
SlotAt(k) ==
    LET t == (k - 1) * 15
    IN  <<48 + (t \div 600), 48 + ((t \div 60) % 10), 58, 48 + ((t % 60) \div 10), 48 + (t % 10)>>

\* minutes since midnight that an "HH:MM" string stands for
TimeOfDay(str) == (str[1] - 48) * 600 + (str[2] - 48) * 60 + (str[4] - 48) * 10 + (str[5] - 48)

Rendered == startSlots # NotRendered

\* C12: for a candidate date on the current calendar day the filter returns
\* exactly the slots strictly later than the current time of day, in their
\* original order: the quarters of an hour from the first one after now up
\* to 23:45.
C12_TodayFilter ==
    (Rendered /\ startDate.defined /\ startDate.t \div 1440 = now \div 1440) =>
        LET first == ((now % 1440) \div 15) + 2
        IN  /\ Len(startSlots) = 97 - first
            /\ \A i \in 1..Len(startSlots) :
                  /\ startSlots[i] = SlotAt(first + i - 1)
                  /\ TimeOfDay(startSlots[i]) > now % 1440
            /\ \A k \in 1..96 :
                  TimeOfDay(SlotAt(k)) > now % 1440 =>
                      \E i \in 1..Len(startSlots) : startSlots[i] = SlotAt(k)

\* at 14:07 today: 14:00 is not offered, 14:15 is the first slot offered
C12_Witness ==
    /\ Rendered /\ startDate.defined /\ startDate.t \div 1440 = now \div 1440
    /\ now % 1440 = 14 * 60 + 7
    /\ startSlots[1] = <<49, 52, 58, 49, 53>>
    /\ \A i \in 1..Len(startSlots) : startSlots[i] # <<49, 52, 58, 48, 48>>

\* C13: for a candidate date that is not the current calendar day the filter
\* returns all 96 slots in order, whatever the current time; so does the end
\* picker when its date is neither today nor the start date.
C13_OtherDayUnfiltered ==
    /\ (Rendered /\ startDate.defined /\ startDate.t \div 1440 # now \div 1440) =>
          /\ Len(startSlots) = 96
          /\ \A k \in 1..96 : startSlots[k] = SlotAt(k)
          /\ startSlots = timeSlots
    /\ ( /\ Rendered /\ endDate.defined /\ endDate.t \div 1440 # now \div 1440
         /\ ~(startDate.defined /\ startDate.t \div 1440 = endDate.t \div 1440) ) =>
          /\ Len(endSlots) = 96
          /\ \A k \in 1..96 : endSlots[k] = SlotAt(k)

\* late in the evening, a start date of tomorrow is offered the whole day
C13_Witness ==
    /\ Rendered /\ startDate.defined /\ startDate.t \div 1440 = (now \div 1440) + 1
    /\ now % 1440 = 23 * 60 + 59
    /\ Len(startSlots) = 96
    /\ startSlots[1] = <<48, 48, 58, 48, 48>>

\* C14: when start date and end date are the same calendar day, every slot
\* offered for the end is strictly greater than the start time as a string and
\* strictly later as a time of day, and for an "HH:MM" start time the two
\* orders agree on every slot.
C14_EndSlotsAfterStart ==
    ( /\ Rendered /\ startDate.defined /\ endDate.defined
      /\ startDate.t \div 1440 = endDate.t \div 1440 ) =>
        /\ \A i \in 1..Len(endSlots) :
              /\ StringLess(startTime, endSlots[i])
              /\ endSlots[i] # startTime
              /\ TimeOfDay(endSlots[i]) > TimeOfDay(startTime)
        /\ \A k \in 1..96 :
              StringLess(startTime, SlotAt(k)) <=> TimeOfDay(SlotAt(k)) > TimeOfDay(startTime)

\* start 14:00 with both dates tomorrow: the end picker starts at 14:15
C14_Witness ==
    /\ Rendered /\ startDate.defined /\ endDate.defined
    /\ startDate.t \div 1440 = endDate.t \div 1440
    /\ startDate.t \div 1440 # now \div 1440
    /\ startTime = <<49, 52, 58, 48, 48>>
    /\ Len(endSlots) > 0
    /\ endSlots[1] = <<49, 52, 58, 49, 53>>

\* C15: the generator yields 96 values, each a zero-padded "HH:MM" string,
\* the first "00:00", the last "23:45", each 15 minutes after the one before
\* and greater than it as a string.
C15_GeneratedSlots ==
    timeSlots # <<>> =>
        /\ Len(timeSlots) = 96
        /\ timeSlots[1] = <<48, 48, 58, 48, 48>>
        /\ timeSlots[Len(timeSlots)] = <<50, 51, 58, 52, 53>>
        /\ \A k \in 1..Len(timeSlots) :
              /\ Len(timeSlots[k]) = 5
              /\ timeSlots[k][3] = 58
              /\ \A j \in {1, 2, 4, 5} : timeSlots[k][j] \in 48..57
        /\ \A k \in 1..(Len(timeSlots) - 1) :
              /\ TimeOfDay(timeSlots[k + 1]) = TimeOfDay(timeSlots[k]) + 15
              /\ StringLess(timeSlots[k], timeSlots[k + 1])

C15_Witness ==
    /\ Len(timeSlots) = 96
    /\ timeSlots[5] = <<48, 49, 58, 48, 48>>
    /\ startSlots = NotRendered

----------------------------------------------------------------------------
(* The permission gate: AppSidebar (fetchRoleAndPermissions, menuItems)    *)
(* and UserDashboard (useUserRole, usePagePermissions, hasAccess)          *)

\* item.route of allMenuItems, in order
allMenuItems ==
    <<"/dashboard", "/accounts", "/contacts", "/leads", "/meetings", "/deals", "/tasks", "/settings">>

\* the routes the dashboard calls hasAccess with
DashboardRoutes == {"/deals", "/leads", "/contacts", "/accounts", "/meetings", "/tasks"}

\* role strings of the user_roles table: the three the gate knows and one it does not
RoleStrings == {"admin", "manager", "user", "viewer"}

PermissionRows(routes) ==
    [route : routes, admin_access : BOOLEAN, manager_access : BOOLEAN, user_access : BOOLEAN]

\* page_permissions tables: empty, one record for /meetings or /deals with any
\* flags, or a record for /deals followed by any record for /meetings
PermissionTables ==
    {<<>>}
    \cup {<<r>> : r \in PermissionRows({"/meetings", "/deals"})}
    \cup {<<d, r>> : d \in {[route |-> "/deals", admin_access |-> TRUE,
                               manager_access |-> FALSE, user_access |-> FALSE],
                              [route |-> "/deals", admin_access |-> FALSE,
                               manager_access |-> TRUE, user_access |-> TRUE]},
                      r \in PermissionRows({"/meetings"})}

Backends ==
    [role : {Null} \cup {Str(r) : r \in RoleStrings},
     metaRole : {Undefined, Str("manager")},
     page_permissions : PermissionTables]

\* what Array.prototype.find answers when no element matches
NoPermission == [route |-> "", admin_access |-> FALSE, manager_access |-> FALSE,
                 user_access |-> FALSE]

\* rows.find(p => p.route === route)
find(rows, route) ==
    IF \E i \in 1..Len(rows) : rows[i].route = route
    THEN rows[CHOOSE i \in 1..Len(rows) :
                 /\ rows[i].route = route
                 /\ \A j \in 1..(i - 1) : rows[j].route # route]
    ELSE NoPermission

\* a || b || c of strings that may be null or undefined
FirstTruthy(a, b, c) == IF ~Falsy(a) THEN a ELSE IF ~Falsy(b) THEN b ELSE c

\* variant: the manager case falls through to the user flag
menuItemFilter_managerAsUser(route) ==
    LET permission == find(permissions, route)
    IN  IF permission = NoPermission THEN TRUE
        ELSE CASE userRole = "admin" -> permission.admin_access
               [] OTHER -> permission.user_access

\* the callback of allMenuItems.filter in menuItems
menuItemFilter(route) ==
    LET permission == find(permissions, route)
    IN  IF permission = NoPermission THEN TRUE
        ELSE CASE userRole = "admin" -> permission.admin_access
               [] userRole = "manager" -> permission.manager_access
               [] OTHER -> permission.user_access

\* const menuItems = useMemo(...)
menuItems == SelectSeq(allMenuItems, menuItemFilter)

\* variant: a route without a record is denied
hasAccess_denyUnlisted(route) ==
    IF Falsy(permQuery.data) \/ Falsy(roleQuery.data) THEN TRUE
    ELSE LET permission == find(permQuery.data.v, route)
         IN  IF permission = NoPermission THEN FALSE
             ELSE CASE roleQuery.data.v = "admin" -> permission.admin_access
                    [] roleQuery.data.v = "manager" -> permission.manager_access
                    [] OTHER -> permission.user_access

\* hasAccess(route) of UserDashboard
hasAccess(route) ==
    IF Falsy(permQuery.data) \/ Falsy(roleQuery.data) THEN TRUE
    ELSE LET permission == find(permQuery.data.v, route)
         IN  IF permission = NoPermission THEN TRUE
             ELSE CASE roleQuery.data.v = "admin" -> permission.admin_access
                    [] roleQuery.data.v = "manager" -> permission.manager_access
                    [] OTHER -> permission.user_access

GateInit ==
    /\ ProvIdle
    /\ now = 0
    /\ utcOffset = 0
    /\ FormMounted
    /\ SlotsUnrendered
    /\ \E b \in Backends : GateMounted(b)

\* fetchRoleAndPermissions, first await: the user_roles row (or none), or a throw
SidebarFetchRole ==
    /\ sidebar = "role"
    /\ \E outcome \in {"answered", "throws"} :
          IF outcome = "answered"
          THEN /\ userRole' = FirstTruthy(backend.role, backend.metaRole, Str("user")).v
               /\ sidebar' = "permissions"
          ELSE /\ sidebar' = "done"
               /\ UNCHANGED userRole
    /\ UNCHANGED <<backend, permissions, roleQuery, permQuery>>
    /\ UNCHANGED <<now, utcOffset, open, editingMeeting, startDate, startTime, endDate, endTime,
                   formData, toast, lastWrite, teamsVars, modalVars, peopleVars, slotVars,
                   azureEnv, req, pc, calls, user, accessToken, meeting, resp>>

\* fetchRoleAndPermissions, second await: setPermissions(permData || [])
SidebarFetchPermissions ==
    /\ sidebar = "permissions"
    /\ \E outcome \in {"data", "error", "throws"} :
          CASE outcome = "data" -> permissions' = backend.page_permissions
            [] outcome = "error" -> permissions' = <<>>
            [] outcome = "throws" -> UNCHANGED permissions
    /\ sidebar' = "done"
    /\ UNCHANGED <<backend, userRole, roleQuery, permQuery>>
    /\ UNCHANGED <<now, utcOffset, open, editingMeeting, startDate, startTime, endDate, endTime,
                   formData, toast, lastWrite, teamsVars, modalVars, peopleVars, slotVars,
                   azureEnv, req, pc, calls, user, accessToken, meeting, resp>>

\* useUserRole: data?.role || 'user', or the query fails and holds no data
DashboardRoleQuery ==
    /\ roleQuery.status = "pending"
    /\ \E outcome \in {"success", "error"} :
          roleQuery' = [status |-> outcome,
                        data |-> IF outcome = "success"
                                 THEN FirstTruthy(backend.role, Str("user"), Str("user"))
                                 ELSE Undefined]
    /\ UNCHANGED <<backend, sidebar, userRole, permissions, permQuery>>
    /\ UNCHANGED <<now, utcOffset, open, editingMeeting, startDate, startTime, endDate, endTime,
                   formData, toast, lastWrite, teamsVars, modalVars, peopleVars, slotVars,
                   azureEnv, req, pc, calls, user, accessToken, meeting, resp>>

\* usePagePermissions: data || [], or the query fails and holds no data
DashboardPermissionsQuery ==
    /\ permQuery.status = "pending"
    /\ \E outcome \in {"success", "error"} :
          permQuery' = [status |-> outcome,
                        data |-> IF outcome = "success"
                                 THEN Arr(backend.page_permissions)
                                 ELSE Undefined]
    /\ UNCHANGED <<backend, sidebar, userRole, permissions, roleQuery>>
    /\ UNCHANGED <<now, utcOffset, open, editingMeeting, startDate, startTime, endDate, endTime,
                   formData, toast, lastWrite, teamsVars, modalVars, peopleVars, slotVars,
                   azureEnv, req, pc, calls, user, accessToken, meeting, resp>>

GateNext ==
    \/ SidebarFetchRole
    \/ SidebarFetchPermissions
    \/ DashboardRoleQuery
    \/ DashboardPermissionsQuery

SpecGate == GateInit /\ [][GateNext]_vars

----------------------------------------------------------------------------
(* Properties of the permission gate, checked under SpecGate *)

HasRecord(rows, route) == \E i \in 1..Len(rows) : rows[i].route = route

RecordOf(rows, route) == rows[CHOOSE i \in 1..Len(rows) : rows[i].route = route]

\* the menu shows the item of the route
Shown(route) == \E i \in 1..Len(menuItems) : menuItems[i] = route

\* the flag of a record that stands for a role string
FlagFor(record, role) ==
    IF role = "admin" THEN record.admin_access
    ELSE IF role = "manager" THEN record.manager_access
    ELSE record.user_access

\* C16: a route without a record in the permission mapping is allowed, for
\* every role and mapping: the sidebar shows its menu item, and the dashboard
\* check answers true for it.
C16_AbsentRouteAllowed ==
    /\ \A i \in 1..Len(allMenuItems) :
          ~HasRecord(permissions, allMenuItems[i]) => Shown(allMenuItems[i])
    /\ \A route \in DashboardRoutes :
          (permQuery.data.js # "array" \/ ~HasRecord(permQuery.data.v, route)) => hasAccess(route)

\* a manager with a single record, which denies /deals: /meetings is allowed
\* by sidebar and dashboard, /deals by neither
C16_Witness ==
    /\ sidebar = "done" /\ userRole = "manager"
    /\ Len(permissions) = 1 /\ permissions[1].route = "/deals"
    /\ ~permissions[1].manager_access
    /\ Shown("/meetings") /\ ~Shown("/deals")
    /\ roleQuery.data = Str("manager") /\ permQuery.data = Arr(permissions)
    /\ hasAccess("/meetings") /\ ~hasAccess("/deals")

\* C17: when the mapping holds a record for a route, the decision is that
\* record's flag for the role string: admin_access for "admin",
\* manager_access for "manager", user_access for "user" and for every other
\* role string; in the sidebar for the role it holds, in the dashboard for
\* the role its query has answered.
C17_RecordDecides ==
    /\ \A i \in 1..Len(allMenuItems) :
          HasRecord(permissions, allMenuItems[i]) =>
              (Shown(allMenuItems[i]) <=> FlagFor(RecordOf(permissions, allMenuItems[i]), userRole))
    /\ \A route \in DashboardRoutes :
          ( /\ permQuery.data.js = "array"
            /\ roleQuery.data.js = "string"
            /\ HasRecord(permQuery.data.v, route) ) =>
              (hasAccess(route) <=> FlagFor(RecordOf(permQuery.data.v, route), roleQuery.data.v))

\* a role string the gate does not know is decided by user_access: denied
\* where the record grants admin and manager only
C17_Witness ==
    /\ userRole = "viewer" /\ roleQuery.data = Str("viewer")
    /\ HasRecord(permissions, "/meetings") /\ permQuery.data = Arr(permissions)
    /\ RecordOf(permissions, "/meetings").admin_access
    /\ RecordOf(permissions, "/meetings").manager_access
    /\ ~RecordOf(permissions, "/meetings").user_access
    /\ ~Shown("/meetings") /\ ~hasAccess("/meetings")

\* both fetches of the sidebar and both queries of the dashboard have answered
\* with the rows of the backend
GateLoaded ==
    /\ sidebar = "done" /\ permissions = backend.page_permissions
    /\ roleQuery.status = "success" /\ permQuery.status = "success"

\* C29: once role and permissions have loaded, the menu filter of the sidebar
\* and the access check of the dashboard decide every route alike, for every
\* role, mapping and route; while the mapping has not arrived (or its fetch
\* failed) both allow every route.
C29_SameDecision ==
    /\ GateLoaded => \A route \in DashboardRoutes : Shown(route) <=> hasAccess(route)
    /\ permissions = <<>> => \A route \in DashboardRoutes : Shown(route)
    /\ permQuery.data.js # "array" => \A route \in DashboardRoutes : hasAccess(route)

----------------------------------------------------------------------------
(* The chain of provider calls of the edge function, checked under SpecProv *)

\* the provider calls issued for the request, in the order they were issued
ProviderCalls == SelectSeq(calls, LAMBDA c : c.op \in ProviderOps)

\* the error a failed provider call raises
StepError(c) ==
    CASE c = Call("token", "rejected") -> <<"AADSTS7000215: Invalid client secret provided.">>
      [] c = Call("token", "rejectedNoDescription") -> <<"Failed to get access token from Azure AD">>
      [] c = Call("lookup", "notFound") -> MsgOrganizerNotFound(SessionUser.email)
      [] c = Call("create", "AuthenticationError") -> MsgGraphAuthentication
      [] c = Call("create", "ResourceNotFound") -> MsgNoLicense(SessionUser.email)
      [] c = Call("create", "otherError") -> <<"Invalid request body">>
      [] c = Call("create", "otherNoMessage") -> <<"Failed to create Teams meeting">>

\* C18: the provider calls of a request are token exchange, directory lookup,
\* meeting creation in this order, each at most once; a call is only issued
\* after the one before it succeeded; the audit write follows three successful
\* calls; a failed call is the last call of the request, which is then answered
\* 500 with the error of that call; and the log of calls only grows by one
\* call at a time until the request is done.
C18_SequentialChain ==
    /\ [](LET p == ProviderCalls
          IN  /\ Len(p) <= 3
              /\ \A i \in 1..Len(p) : p[i].op = <<"token", "lookup", "create">>[i]
              /\ \A i \in 1..(Len(p) - 1) : p[i].outcome = "ok"
              /\ Issued("audit") => (Len(p) = 3 /\ p[3].outcome = "ok")
              /\ \A i \in 1..Len(p) :
                    p[i].outcome # "ok" =>
                        /\ calls[Len(calls)] = p[i]
                        /\ ~Issued("audit")
                        /\ pc = "done"
                        /\ resp.status = 500
                        /\ resp.kind = "error"
                        /\ resp.error = StepError(p[i]))
    /\ [][\/ calls' = calls
          \/ (pc = "done" /\ calls' = <<>>)
          \/ (pc # "done" /\ Len(calls') = Len(calls) + 1
                /\ SubSeq(calls', 1, Len(calls)) = calls)]_vars

\* the creation was refused after a successful exchange and lookup
C18_Witness ==
    /\ pc = "done"
    /\ calls = <<Call("getUser", "user"), Call("token", "ok"), Call("lookup", "ok"),
                 Call("create", "ResourceNotFound")>>
    /\ resp.status = 500
    /\ resp.error = MsgNoLicense(SessionUser.email)

----------------------------------------------------------------------------
(* The "Create Teams Meeting" button of the form: createTeamsMeeting up to  *)
(* its await, and the answer of supabase.functions.invoke                  *)

\* rows of the leads and contacts tables
LeadRows == <<[id |-> "lead-1", name |-> "Lead One", email |-> Str("lead@acme.example")]>>
ContactRows == <<[id |-> "contact-1", name |-> "Contact One", email |-> Null]>>

NoPerson == [id |-> "", name |-> "", email |-> Undefined]

\* rows.find(r => r.id === id)
findById(rows, id) ==
    IF \E i \in 1..Len(rows) : rows[i].id = id
    THEN rows[CHOOSE i \in 1..Len(rows) : rows[i].id = id]
    ELSE NoPerson

SelectValues(rows) == {"none"} \cup {rows[i].id : i \in 1..Len(rows)}

JoinUrlInputs == {"", "https://meet.example/standup"}

\* lead select: onValueChange
SelectLead(value) ==
    /\ open
    /\ formData' = [formData EXCEPT !.lead_id = IF value = "none" THEN "" ELSE value]
    /\ UNCHANGED <<now, utcOffset, open, editingMeeting, startDate, startTime, endDate,
                   endTime, toast, lastWrite, teamsVars, modalVars, peopleVars, slotVars, gateVars,
                   azureEnv, req, pc, calls, user, accessToken, meeting, resp>>

\* contact select: onValueChange
SelectContact(value) ==
    /\ open
    /\ formData' = [formData EXCEPT !.contact_id = IF value = "none" THEN "" ELSE value]
    /\ UNCHANGED <<now, utcOffset, open, editingMeeting, startDate, startTime, endDate,
                   endTime, toast, lastWrite, teamsVars, modalVars, peopleVars, slotVars, gateVars,
                   azureEnv, req, pc, calls, user, accessToken, meeting, resp>>

\* join_url input: onChange
TypeJoinUrl(text) ==
    /\ open
    /\ formData' = [formData EXCEPT !.join_url = text]
    /\ UNCHANGED <<now, utcOffset, open, editingMeeting, startDate, startTime, endDate,
                   endTime, toast, lastWrite, teamsVars, modalVars, peopleVars, slotVars, gateVars,
                   azureEnv, req, pc, calls, user, accessToken, meeting, resp>>

\* the attendees createTeamsMeeting collects from the linked lead and contact
AttendeeOf(rows, id) ==
    IF id # "" /\ ~Falsy(findById(rows, id).email)
    THEN <<[email |-> findById(rows, id).email.v, name |-> findById(rows, id).name]>>
    ELSE <<>>

\* body of the invocation
TeamsRequest ==
    [subject |-> formData.subject,
     attendees |-> AttendeeOf(leads, formData.lead_id) \o AttendeeOf(contacts, formData.contact_id),
     startTime |-> buildISODateTime(startDate, startTime, utcOffset),
     endTime |-> buildISODateTime(endDate, endTime, utcOffset)]

\* an invocation that has not answered: its body, and the meeting prop of the
\* form that issued it ("" for a new meeting)
PendingCall == [body |-> TeamsRequest, meeting |-> editingMeeting.id]

ToastTeamsMissingFields ==
    [title |-> "Missing fields",
     description |-> "Please fill in subject, start time and end time first"]
ToastTeamsCreated ==
    [title |-> "Teams Meeting Created", description |-> "Meeting link has been generated"]
ToastTeamsError(message) ==
    [title |-> "Error",
     description |-> IF message = "" THEN "Failed to create Teams meeting" ELSE message]

\* variant: the button is not disabled while a call is pending
createTeamsMeeting_alwaysEnabled ==
    /\ open
    /\ Len(teamsCalls) < 2
    /\ IF formData.subject = "" \/ ~startDate.defined \/ ~endDate.defined
       THEN /\ toast' = ToastTeamsMissingFields
            /\ UNCHANGED teamsVars
       ELSE /\ creatingTeamsMeeting' = TRUE
            /\ teamsCalls' = Append(teamsCalls, PendingCall)
            /\ UNCHANGED toast
    /\ UNCHANGED <<now, utcOffset, open, editingMeeting, startDate, startTime, endDate,
                   endTime, formData, lastWrite, modalVars, peopleVars, slotVars, gateVars,
                   azureEnv, req, pc, calls, user, accessToken, meeting, resp>>

\* click on "Create Teams Meeting" (disabled={creatingTeamsMeeting}):
\* createTeamsMeeting up to the await of supabase.functions.invoke
createTeamsMeeting ==
    /\ open
    /\ ~creatingTeamsMeeting
    /\ IF formData.subject = "" \/ ~startDate.defined \/ ~endDate.defined
       THEN /\ toast' = ToastTeamsMissingFields
            /\ UNCHANGED teamsVars
       ELSE /\ creatingTeamsMeeting' = TRUE
            /\ teamsCalls' = Append(teamsCalls, PendingCall)
            /\ UNCHANGED toast
    /\ UNCHANGED <<now, utcOffset, open, editingMeeting, startDate, startTime, endDate,
                   endTime, formData, lastWrite, modalVars, peopleVars, slotVars, gateVars,
                   azureEnv, req, pc, calls, user, accessToken, meeting, resp>>

\* what the invocation resolves to: the meeting with its join URL, a 2xx
\* answer without one, or an error (the function answered non-2xx, the
\* request could not be sent, an error without a message)
TeamsFailures == {"httpError", "fetchError", "errorNoMessage"}
TeamsOutcomes == {"joinUrl", "noJoinUrl"} \cup TeamsFailures

TeamsErrorMessage(outcome) ==
    CASE outcome = "httpError" -> "Edge Function returned a non-2xx status code"
      [] outcome = "fetchError" -> "Failed to send a request to the Edge Function"
      [] outcome = "errorNoMessage" -> ""

\* data.meeting.joinUrl of an answer that carries one
AnsweredJoinUrl == "https://teams.microsoft.com/l/meetup-join/19:meeting"

\* variant: a failed invocation is issued again
TeamsAnswer_retries(outcome) ==
    /\ teamsCalls # <<>>
    /\ CASE outcome = "joinUrl" ->
              /\ formData' = [formData EXCEPT !.join_url = AnsweredJoinUrl]
              /\ toast' = ToastTeamsCreated
              /\ teamsCalls' = Tail(teamsCalls)
              /\ creatingTeamsMeeting' = FALSE
         [] outcome = "noJoinUrl" ->
              /\ teamsCalls' = Tail(teamsCalls)
              /\ creatingTeamsMeeting' = FALSE
              /\ UNCHANGED <<formData, toast>>
         [] outcome \in TeamsFailures ->
              /\ toast' = ToastTeamsError(TeamsErrorMessage(outcome))
              /\ teamsCalls' = Append(Tail(teamsCalls), Head(teamsCalls))
              /\ UNCHANGED <<formData, creatingTeamsMeeting>>
    /\ UNCHANGED <<now, utcOffset, open, editingMeeting, startDate, startTime, endDate,
                   endTime, lastWrite, modalVars, peopleVars, slotVars, gateVars,
                   azureEnv, req, pc, calls, user, accessToken, meeting, resp>>

\* createTeamsMeeting from the await on: if (error) throw, the join URL into
\* the form, catch, finally
TeamsAnswer(outcome) ==
    /\ teamsCalls # <<>>
    /\ teamsCalls' = Tail(teamsCalls)
    /\ creatingTeamsMeeting' = FALSE
    /\ CASE outcome = "joinUrl" ->
              /\ formData' = [formData EXCEPT !.join_url = AnsweredJoinUrl]
              /\ toast' = ToastTeamsCreated
         [] outcome = "noJoinUrl" ->
              UNCHANGED <<formData, toast>>
         [] outcome \in TeamsFailures ->
              /\ toast' = ToastTeamsError(TeamsErrorMessage(outcome))
              /\ UNCHANGED formData
    /\ UNCHANGED <<now, utcOffset, open, editingMeeting, startDate, startTime, endDate,
                   endTime, lastWrite, modalVars, peopleVars, slotVars, gateVars,
                   azureEnv, req, pc, calls, user, accessToken, meeting, resp>>

\* the page after the form was opened once for a new meeting, its lists of
\* leads and contacts arrived, and it was cancelled
ListsLoaded ==
    /\ open = FALSE
    /\ editingMeeting = NoRow
    /\ startDate = DateOf(DefaultStart(now))
    /\ startTime = formatHHmm(DefaultStart(now))
    /\ endDate = DateOf(DefaultStart(now) + MinutesPerHour)
    /\ endTime = formatHHmm(DefaultStart(now) + MinutesPerHour)
    /\ formData = EmptyForm
    /\ toast = NoToast
    /\ lastWrite = NoWrite
    /\ creatingTeamsMeeting = FALSE
    /\ teamsCalls = <<>>
    /\ loading = FALSE
    /\ saveCall = NoWrite
    /\ timezone = "Europe/Berlin"
    /\ leads = LeadRows
    /\ contacts = ContactRows
    /\ fetchingPeople = FALSE

TeamsInit ==
    /\ ProvIdle
    /\ now \in NowSet
    /\ utcOffset = 0
    /\ ListsLoaded
    /\ SlotsUnrendered
    /\ GateMounted(EmptyBackend)

\* the form with its Teams button; the time lists and the end calendar are
\* left alone, the times of a request are those the form set when it opened
TeamsNext ==
    \/ ClickNewMeeting
    \/ \E m \in StoredMeetings(utcOffset) : ClickEdit(m)
    \/ Cancel
    \/ \E d \in Days : SelectStartDate(d)
    \/ \E text \in SubjectInputs : TypeSubject(text)
    \/ \E value \in SelectValues(leads) : SelectLead(value)
    \/ \E value \in SelectValues(contacts) : SelectContact(value)
    \/ \E text \in JoinUrlInputs : TypeJoinUrl(text)
    \/ createTeamsMeeting
    \/ \E outcome \in TeamsOutcomes : TeamsAnswer(outcome)
    \/ handleSubmit

SpecTeams == TeamsInit /\ [][TeamsNext]_vars

----------------------------------------------------------------------------
(* Properties of the Teams button, checked under SpecTeams *)

TeamsFails == \E outcome \in TeamsFailures : TeamsAnswer(outcome)

\* C20 as stated: after a failed attempt the join_url of the form is empty,
\* nothing was written to the meetings table and no invocation is pending.
C20_JoinUrlEmptyAfterFailure ==
    [][TeamsFails =>
         /\ formData'.join_url = ""
         /\ lastWrite' = lastWrite
         /\ teamsCalls' = <<>>]_vars

\* C20 (amended): a failed attempt leaves the form as it was, its join_url
\* included (empty if it was empty), writes nothing to the meetings table and
\* leaves no invocation pending with the button enabled again; an invocation
\* is only ever issued by a click on the enabled button of the open form.
C20_FailureCommitsNothing ==
    /\ [][TeamsFails =>
            /\ formData' = formData
            /\ lastWrite' = lastWrite
            /\ teamsCalls' = <<>>
            /\ ~creatingTeamsMeeting']_vars
    /\ [][Len(teamsCalls') > Len(teamsCalls) =>
            /\ open /\ ~creatingTeamsMeeting
            /\ formData.subject # "" /\ startDate.defined /\ endDate.defined
            /\ UNCHANGED <<formData, lastWrite>>]_vars

\* the second attempt of a form failed: the link of the first is still there
C20_Witness ==
    /\ toast = [title |-> "Error",
                description |-> "Edge Function returned a non-2xx status code"]
    /\ teamsCalls = <<>> /\ ~creatingTeamsMeeting
    /\ formData.join_url = "https://teams.microsoft.com/l/meetup-join/19:meeting"
    /\ lastWrite = NoWrite

\* an invocation answers while the open form is not the form that issued it
LateAnswer ==
    /\ open
    /\ teamsCalls # <<>>
    /\ Head(teamsCalls).meeting # editingMeeting.id
    /\ \E outcome \in TeamsOutcomes : TeamsAnswer(outcome)

\* C24: a join URL that an invocation returns is written only into the form
\* of the meeting the invocation was issued for: when the form was closed and
\* reopened for another meeting in the meantime, the late answer leaves the
\* join_url of the reopened form as it is.
C24_LateAnswerIgnored ==
    [][LateAnswer => formData'.join_url = formData.join_url]_vars

\* the form wrote a record to the meetings table
FormWrites == lastWrite' # lastWrite /\ lastWrite'.op # "none"

\* C25: the form inserts or updates no record while an invocation that it
\* issued has not answered.
C25_NoWriteWhileInFlight ==
    [][FormWrites => ~(\E i \in 1..Len(teamsCalls) : teamsCalls[i].meeting = editingMeeting.id)]_vars

----------------------------------------------------------------------------
(* The defaults of a new meeting: the form is opened at any minute of the  *)
(* day and cancelled                                                       *)

\* wall-clock times the New Meeting button is clicked at: every minute of day 0
DefaultNows == 0..(MinutesPerDay - 1)

DefaultsInit ==
    /\ ProvIdle
    /\ now \in DefaultNows
    /\ utcOffset = 0
    /\ FormMounted
    /\ SlotsUnrendered
    /\ GateMounted(EmptyBackend)

DefaultsNext ==
    \/ ClickNewMeeting
    \/ Cancel

SpecDefaults == DefaultsInit /\ [][DefaultsNext]_vars

\* Math.ceil(m / 15) * 15
CeilQuarter(m) == IF m % 15 = 0 THEN m ELSE (m \div 15 + 1) * 15

----------------------------------------------------------------------------
(* The time-zone select of the form *)

\* tz.value of TIMEZONES, in order
TIMEZONES ==
    <<"UTC", "Europe/London", "Europe/Berlin", "Europe/Paris", "America/New_York",
      "America/Chicago", "America/Denver", "America/Los_Angeles", "Asia/Dubai",
      "Asia/Kolkata", "Asia/Singapore", "Asia/Tokyo", "Australia/Sydney">>

\* the items a user picks: the first, the initial one and one far to the east
ZoneInputs == {TIMEZONES[1], TIMEZONES[3], TIMEZONES[12]}

\* time-zone select: onValueChange={setTimezone}
SelectTimezone(tz) ==
    /\ open
    /\ timezone' = tz
    /\ UNCHANGED <<now, utcOffset, open, editingMeeting, startDate, startTime, endDate,
                   endTime, formData, toast, lastWrite, teamsVars, loading, saveCall,
                   peopleVars, slotVars, gateVars,
                   azureEnv, req, pc, calls, user, accessToken, meeting, resp>>

\* the form with its time-zone select, its Teams button and its submit button
ZoneNext ==
    \/ ClickNewMeeting
    \/ \E m \in StoredMeetings(utcOffset) : ClickEdit(m)
    \/ Cancel
    \/ \E d \in Days : SelectStartDate(d)
    \/ \E text \in SubjectInputs : TypeSubject(text)
    \/ \E tz \in ZoneInputs : SelectTimezone(tz)
    \/ createTeamsMeeting
    \/ \E outcome \in TeamsOutcomes : TeamsAnswer(outcome)
    \/ handleSubmit

SpecZone == FormInit /\ [][ZoneNext]_vars

\* the body of the invocation that was issued last
LastCall == teamsCalls'[Len(teamsCalls')].body

\* C27: a change of the time-zone select leaves start date, start time, end
\* date and end time as they are, and the start and end instants that go to
\* the provisioner or into the meetings table are those of the selected date
\* and "HH:MM" string (in the browser's own zone), whatever zone is selected.
C27_TimezoneIgnored ==
    /\ [][timezone' # timezone =>
            UNCHANGED <<startDate, startTime, endDate, endTime>>]_vars
    /\ [][Len(teamsCalls') > Len(teamsCalls) =>
            /\ InstantOf(LastCall.startTime) = FormInstant(startDate, startTime)
            /\ InstantOf(LastCall.endTime) = FormInstant(endDate, endTime)]_vars
    /\ [][FormWrites =>
            /\ InstantOf(lastWrite'.row.start_time) = FormInstant(startDate, startTime)
            /\ InstantOf(lastWrite'.row.end_time) = FormInstant(endDate, endTime)]_vars

\* a browser two hours ahead of UTC with Tokyo selected saved the meeting
\* of tomorrow 09:00 as 07:00 UTC and has an invocation pending for 07:00 UTC
C27_Witness ==
    /\ utcOffset = 120 /\ timezone = "Asia/Tokyo"
    /\ lastWrite.op = "update"
    /\ lastWrite.row.start_time = [date |-> 1, time |-> TimeString(7, 0)]
    /\ Len(teamsCalls) = 1
    /\ teamsCalls[1].body.startTime = [date |-> 1, time |-> TimeString(7, 0)]

----------------------------------------------------------------------------
(* The status of a meeting: the status select of the form, the badge of    *)
(* the meetings list and the meeting counters of the dashboard             *)

\* SelectItem values of the status select
StatusItems == {"scheduled", "cancelled"}

\* status select: onValueChange
SelectStatus(value) ==
    /\ open
    /\ formData' = [formData EXCEPT !.status = value]
    /\ UNCHANGED <<now, utcOffset, open, editingMeeting, startDate, startTime, endDate,
                   endTime, toast, lastWrite, teamsVars, modalVars, peopleVars, slotVars, gateVars,
                   azureEnv, req, pc, calls, user, accessToken, meeting, resp>>

\* a day passes
ClockAdvance ==
    /\ getDay(now) < MaxDay
    /\ now' = now + MinutesPerDay
    /\ UNCHANGED <<utcOffset, open, editingMeeting, startDate, startTime, endDate,
                   endTime, formData, toast, lastWrite, teamsVars, modalVars, peopleVars,
                   slotVars, gateVars,
                   azureEnv, req, pc, calls, user, accessToken, meeting, resp>>

\* the rows of the signed-in user that the meetings table holds once the
\* form has written to it
TableRows ==
    CASE lastWrite.op = "insert" -> StoredMeetings(utcOffset) \cup {lastWrite.row}
      [] lastWrite.op = "update" ->
            {m \in StoredMeetings(utcOffset) : m.id # lastWrite.row.id} \cup {lastWrite.row}
      [] OTHER -> StoredMeetings(utcOffset)

\* variant: a start in the past is looked at before the stored status
getStatusBadge_pastFirst(status, start_time) ==
    LET meetingStart == parseISO(start_time, utcOffset)
    IN  IF meetingStart < now THEN "Completed"
        ELSE IF status = "cancelled" THEN "Cancelled"
        ELSE "Scheduled"

\* getStatusBadge(status, startTime) of the meetings list
getStatusBadge(status, start_time) ==
    LET meetingStart == parseISO(start_time, utcOffset)
    IN  IF status = "cancelled" THEN "Cancelled"
        ELSE IF meetingStart < now THEN "Completed"
        ELSE "Scheduled"

\* a > b of two timestamp strings of the same layout
IsoGreater(a, b) ==
    \/ a.date > b.date
    \/ (a.date = b.date /\ StringLess(b.time, a.time))

\* the meeting counters of the dashboard
meetingsData(data) ==
    LET todayISO == toISOString(now, utcOffset)
    IN  [total |-> Cardinality(data),
         upcoming |-> Cardinality({m \in data : IsoGreater(m.start_time, todayISO)
                                                  /\ m.status = "Scheduled"}),
         completed |-> Cardinality({m \in data : m.status = "Completed"})]

\* the form with its status select, and the clock
ListNext ==
    \/ ClickNewMeeting
    \/ \E m \in StoredMeetings(utcOffset) : ClickEdit(m)
    \/ Cancel
    \/ \E text \in SubjectInputs : TypeSubject(text)
    \/ \E value \in StatusItems : SelectStatus(value)
    \/ handleSubmit
    \/ ClockAdvance

SpecList == FormInit /\ [][ListNext]_vars

\* the badge the list shows for a row
BadgeOf(m) == getStatusBadge(m.status, m.start_time)

\* C23: "Completed" is derived, never stored: a record the form inserts has
\* status scheduled or cancelled, and the list shows a row as Cancelled when
\* its stored status is cancelled, as Completed when it is not cancelled and
\* its start instant is before the current instant, as Scheduled otherwise.
C23_CompletedIsDerived ==
    /\ lastWrite.op = "insert" => lastWrite.row.status \in {"scheduled", "cancelled"}
    /\ \A m \in TableRows :
          /\ BadgeOf(m) = "Completed" <=>
                (m.status # "cancelled" /\ InstantOf(m.start_time) < now)
          /\ BadgeOf(m) = "Cancelled" <=> m.status = "cancelled"
          /\ BadgeOf(m) = "Scheduled" <=>
                (m.status # "cancelled" /\ ~(InstantOf(m.start_time) < now))

\* a day after the form inserted a scheduled and stored meeting, the list
\* shows it as Completed
C23_Witness ==
    /\ lastWrite.op = "insert"
    /\ lastWrite.row.status = "scheduled"
    /\ InstantOf(lastWrite.row.start_time) < now
    /\ BadgeOf(lastWrite.row) = "Completed"

\* C26: for meetings saved through the form, the "upcoming" counter of the
\* dashboard is the number of rows the list shows as Scheduled, and the
\* "completed" counter the number of rows it shows as Completed.
C26_CountersAgree ==
    lastWrite.op # "none" =>
        /\ meetingsData(TableRows).upcoming
              = Cardinality({m \in TableRows : BadgeOf(m) = "Scheduled"})
        /\ meetingsData(TableRows).completed
              = Cardinality({m \in TableRows : BadgeOf(m) = "Completed"})

----------------------------------------------------------------------------
(* The requests of the form and their busy flags: handleSubmit split at its *)
(* await, fetchLeadsAndContacts and createTeamsMeeting                      *)

\* handleSubmit up to the await of the meetings table (submit button:
\* disabled={loading})
SubmitStart ==
    /\ open
    /\ ~loading
    /\ IF formData.subject = "" \/ ~startDate.defined \/ ~endDate.defined
       THEN /\ toast' = ToastMissingFields
            /\ UNCHANGED <<loading, saveCall>>
       ELSE /\ loading' = TRUE
            /\ saveCall' = IF editingMeeting # NoRow
                           THEN [op |-> "update", row |-> meetingData(editingMeeting.id)]
                           ELSE [op |-> "insert", row |-> meetingData(NewRowId)]
            /\ UNCHANGED toast
    /\ UNCHANGED <<now, utcOffset, open, editingMeeting, startDate, startTime, endDate,
                   endTime, formData, lastWrite, teamsVars, timezone, peopleVars, slotVars,
                   gateVars, azureEnv, req, pc, calls, user, accessToken, meeting, resp>>

\* variant: the busy flag is reset on success only
SubmitAnswer_noFinally(answer) ==
    /\ saveCall # NoWrite
    /\ saveCall' = NoWrite
    /\ IF answer = "error"
       THEN /\ toast' = ToastSaveError
            /\ UNCHANGED <<open, editingMeeting, lastWrite, loading>>
       ELSE /\ lastWrite' = saveCall
            /\ toast' = IF saveCall.op = "update" THEN ToastUpdated ELSE ToastCreated
            /\ editingMeeting' = NoRow
            /\ open' = FALSE
            /\ loading' = FALSE
    /\ UNCHANGED <<now, utcOffset, startDate, startTime, endDate, endTime, formData,
                   teamsVars, timezone, peopleVars, slotVars, gateVars,
                   azureEnv, req, pc, calls, user, accessToken, meeting, resp>>

\* handleSubmit from the await on: if (error) throw, the success toast,
\* onSuccess and onOpenChange(false), catch, finally
SubmitAnswer(answer) ==
    /\ saveCall # NoWrite
    /\ saveCall' = NoWrite
    /\ loading' = FALSE
    /\ IF answer = "error"
       THEN /\ toast' = ToastSaveError
            /\ UNCHANGED <<open, editingMeeting, lastWrite>>
       ELSE /\ lastWrite' = saveCall
            /\ toast' = IF saveCall.op = "update" THEN ToastUpdated ELSE ToastCreated
            /\ editingMeeting' = NoRow
            /\ open' = FALSE
    /\ UNCHANGED <<now, utcOffset, startDate, startTime, endDate, endTime, formData,
                   teamsVars, timezone, peopleVars, slotVars, gateVars,
                   azureEnv, req, pc, calls, user, accessToken, meeting, resp>>

\* what the two selects of fetchLeadsAndContacts resolve to: rows, an error
\* object with data null, or a rejected promise
PeopleFailures == {"error", "throws"}
PeopleOutcomes == {"data"} \cup PeopleFailures

\* fetchLeadsAndContacts from the await on
fetchLeadsAndContacts(outcome) ==
    /\ fetchingPeople
    /\ fetchingPeople' = FALSE
    /\ IF outcome = "data"
       THEN /\ leads' = LeadRows
            /\ contacts' = ContactRows
       ELSE UNCHANGED <<leads, contacts>>
    /\ UNCHANGED <<now, utcOffset, open, editingMeeting, startDate, startTime, endDate,
                   endTime, formData, toast, lastWrite, teamsVars, modalVars, slotVars,
                   gateVars, azureEnv, req, pc, calls, user, accessToken, meeting, resp>>

BusyInit ==
    /\ ProvIdle
    /\ now \in NowSet
    /\ utcOffset = 0
    /\ FormMounted
    /\ SlotsUnrendered
    /\ GateMounted(EmptyBackend)

\* the form with its three kinds of request
BusyNext ==
    \/ ClickNewMeeting
    \/ \E m \in StoredMeetings(utcOffset) : ClickEdit(m)
    \/ Cancel
    \/ \E text \in SubjectInputs : TypeSubject(text)
    \/ \E value \in SelectValues(leads) : SelectLead(value)
    \/ \E outcome \in PeopleOutcomes : fetchLeadsAndContacts(outcome)
    \/ createTeamsMeeting
    \/ \E outcome \in TeamsOutcomes : TeamsAnswer(outcome)
    \/ SubmitStart
    \/ \E answer \in {"ok", "error"} : SubmitAnswer(answer)

SpecBusy == BusyInit /\ [][BusyNext]_vars

\* a request of the form fails
FormFailure ==
    \/ \E outcome \in TeamsFailures : TeamsAnswer(outcome)
    \/ SubmitAnswer("error")
    \/ \E outcome \in PeopleFailures : fetchLeadsAndContacts(outcome)

\* C21: every failure of a request of the form is shown to the user as an
\* error notification, writes nothing to the meetings table and is not
\* issued again.
C21_FailuresShown ==
    [][FormFailure =>
         /\ toast'.title = "Error"
         /\ lastWrite' = lastWrite
         /\ Len(teamsCalls') <= Len(teamsCalls)
         /\ saveCall' \in {saveCall, NoWrite}]_vars

\* C28: a busy flag is set exactly while the request of its control has not
\* answered: the answer resets it, whether the request succeeded or failed,
\* and a click that the missing-fields check rejects never sets it.
C28_BusyWhilePending ==
    /\ ~creatingTeamsMeeting /\ teamsCalls = <<>>
    /\ ~loading /\ saveCall = NoWrite
    /\ [][/\ creatingTeamsMeeting' <=> teamsCalls' # <<>>
          /\ loading' <=> saveCall' # NoWrite]_vars
    /\ [][(toast' = ToastMissingFields \/ toast' = ToastTeamsMissingFields) /\ toast' # toast =>
            UNCHANGED <<loading, creatingTeamsMeeting>>]_vars

\* the save of the open form failed while its invocation is pending: the
\* submit button is enabled again, the Teams button still disabled
C28_Witness ==
    /\ open
    /\ toast = ToastSaveError
    /\ ~loading /\ saveCall = NoWrite
    /\ creatingTeamsMeeting /\ Len(teamsCalls) = 1

====
